---- MODULE Spec2Model ----
(***************************************************************************)
(* Model of the statistical analysis engine of sistema_ventas:             *)
(* DataAnalysisService (validar_datos, limpiar_datos, generar_resumen and  *)
(* its sections, calcular_metricas_kpi, analizar_tendencias,               *)
(* identificar_anomalias, generar_predicciones, exportar_resultados) and   *)
(* the orchestrator SistemaVentasMain (cargar_datos_sheets,                *)
(* ejecutar_analisis_estadistico).                                         *)
(*                                                                         *)
(* A DataFrame is a record: the set of its columns, the dtype of the       *)
(* venta_total and venta_timestamp columns, and the sequence of its rows.  *)
(* A row keeps its pandas index label (idx) and one cell per column; a     *)
(* cell is a tagged value (number, NaN, None, string, datetime, NaT).      *)
(* Strings are sequences of tokens, " " being the whitespace token.        *)
(***************************************************************************)
EXTENDS Integers, Sequences, FiniteSets, TLC

VARIABLES
    datos,      \* the dataset handed to the operation (SheetsService.df in a run)
    pc,         \* position of the caller / of the orchestrator
    resumen,    \* DataAnalysisService.resumen
    df_actual,  \* DataAnalysisService.df_actual
    ret,        \* value returned by the last operation
    error,      \* kind of the exception the last operation raised, or "ninguno"
    llamadas,   \* the service components invoked so far, in order
    archivos    \* the files written so far: path -> kind of content

vars == <<datos, pc, resumen, df_actual, ret, error, llamadas, archivos>>

----------------------------------------------------------------------------
(* Bounds of the model *)

MaxFilas == 2
MaxEntidades == 11

----------------------------------------------------------------------------
(* Cells *)

Num(k)   == [t |-> "num",  n |-> k, s |-> <<>>]
NaN      == [t |-> "nan",  n |-> 0, s |-> <<>>]
None     == [t |-> "none", n |-> 0, s |-> <<>>]
Str(sq)  == [t |-> "str",  n |-> 0, s |-> sq]
Fecha(k) == [t |-> "dt",   n |-> k, s |-> <<>>]
NaT      == [t |-> "nat",  n |-> 0, s |-> <<>>]
Periodo(k) == [t |-> "per", n |-> k, s |-> <<>>]
Ausente  == [t |-> "absent", n |-> 0, s |-> <<>>]

\* pandas isnull() of one cell
isnull(c) == c.t \in {"nan", "none", "nat"}

----------------------------------------------------------------------------
(* Strings *)

RECURSIVE lstrip(_)
lstrip(sq) == IF sq # <<>> /\ Head(sq) = " " THEN lstrip(Tail(sq)) ELSE sq

RECURSIVE rstrip(_)
rstrip(sq) ==
    IF sq # <<>> /\ sq[Len(sq)] = " " THEN rstrip(SubSeq(sq, 1, Len(sq) - 1)) ELSE sq

\* str.strip()
strip(sq) == rstrip(lstrip(sq))

SinEspecificar == <<"Sin", " ", "especificar">>

\* astype(str) of one cell of a text column
astype_str(c) ==
    CASE c.t = "str"  -> c.s
      [] c.t = "nan"  -> <<"nan">>
      [] c.t = "none" -> <<"None">>
      [] c.t = "nat"  -> <<"NaT">>
      [] OTHER        -> <<"num">>

Digito(c) == CASE c = "0" -> 0 [] c = "1" -> 1 [] c = "2" -> 2 [] OTHER -> -1

EsDigitos(sq) == Len(sq) > 0 /\ \A i \in 1..Len(sq) : Digito(sq[i]) >= 0

RECURSIVE ValorDigitos(_)
ValorDigitos(sq) ==
    IF sq = <<>> THEN 0
    ELSE 10 * ValorDigitos(SubSeq(sq, 1, Len(sq) - 1)) + Digito(sq[Len(sq)])

\* pd.to_numeric(errors='coerce') of one cell
to_numeric(c) ==
    CASE c.t = "num" -> c
      [] c.t = "str" ->
           IF EsDigitos(c.s) THEN Num(ValorDigitos(c.s))
           ELSE IF Len(c.s) > 1 /\ c.s[1] = "-" /\ EsDigitos(Tail(c.s))
                THEN Num(0 - ValorDigitos(Tail(c.s)))
                ELSE NaN
      [] OTHER -> NaN

\* Date strings the parser accepts, in chronological order: Fecha(i) is the
\* instant FechasTexto[i]
FechasTexto == <<"2024-01-10", "2024-01-25", "2024-02-10", "2024-03-10",
                 "2024-04-10", "2024-05-10">>

\* dt.to_period('M') of an instant: the month it falls in
MesDeFecha == <<1, 1, 2, 3, 4, 5>>

to_period_M(c) == IF c.t = "dt" THEN Periodo(MesDeFecha[c.n]) ELSE NaT

\* pd.to_datetime(errors='coerce') of one cell
to_datetime(c) ==
    CASE c.t = "dt" -> c
      [] c.t = "str" ->
           IF Len(c.s) = 1 /\ \E i \in 1..Len(FechasTexto) : FechasTexto[i] = c.s[1]
           THEN Fecha(CHOOSE i \in 1..Len(FechasTexto) : FechasTexto[i] = c.s[1])
           ELSE NaT
      [] OTHER -> NaT

----------------------------------------------------------------------------
(* DataFrames *)

Columnas == {"nombre", "categoria", "venta_total", "venta_timestamp",
             "cliente_id", "diasParaCaducar", "mes_venta"}

Fila(i, nom, cat, vt, ts, cli, dias, mes) ==
    [idx |-> i, nombre |-> nom, categoria |-> cat, venta_total |-> vt,
     venta_timestamp |-> ts, cliente_id |-> cli, diasParaCaducar |-> dias,
     mes_venta |-> mes]

DataFrame(c, dv, dt, fs) ==
    [es_none |-> FALSE, cols |-> c, dt_venta |-> dv, dt_ts |-> dt, filas |-> fs]

\* the null reference
DfNone == [es_none |-> TRUE, cols |-> {}, dt_venta |-> "-", dt_ts |-> "-", filas |-> <<>>]

\* DataFrame.empty: no rows or no columns
empty(d) == Len(d.filas) = 0 \/ d.cols = {}

\* the cell of row f in column col
Celda(f, col) ==
    CASE col = "nombre" -> f.nombre
      [] col = "categoria" -> f.categoria
      [] col = "venta_total" -> f.venta_total
      [] col = "venta_timestamp" -> f.venta_timestamp
      [] col = "cliente_id" -> f.cliente_id
      [] col = "diasParaCaducar" -> f.diasParaCaducar
      [] OTHER -> f.mes_venta

NumNulos(d, col) == Cardinality({i \in 1..Len(d.filas) : isnull(Celda(d.filas[i], col))})

----------------------------------------------------------------------------
(* DataAnalysisService.validar_datos *)

ColumnasBasicas == {"nombre", "categoria", "venta_total"}

UmbralNulos == 80

\* the check of one text column rejecting a null percentage equal to the
\* threshold as well
ErrorNulosInclusivo(d, col) ==
    IF col \in d.cols /\ NumNulos(d, col) * 100 >= UmbralNulos * Len(d.filas)
    THEN <<"nulos_" \o col>>
    ELSE <<>>

\* the check of one text column: "Demasiados valores nulos" when the null
\* percentage exceeds the threshold
ErrorNulos(d, col) ==
    IF col \in d.cols /\ NumNulos(d, col) * 100 > UmbralNulos * Len(d.filas)
    THEN <<"nulos_" \o col>>
    ELSE <<>>

\* validar_datos stopping at the first rule that fails
validar_datos_primer_error(d) ==
    IF d.es_none THEN [es_valido |-> FALSE, errores |-> <<"es_none">>]
    ELSE IF empty(d) THEN [es_valido |-> FALSE, errores |-> <<"vacio">>]
    ELSE IF d.cols \cap ColumnasBasicas = {}
         THEN [es_valido |-> FALSE, errores |-> <<"sin_columna_basica">>]
    ELSE IF "venta_total" \in d.cols /\ d.dt_venta # "float64"
         THEN [es_valido |-> FALSE, errores |-> <<"venta_total_no_numerica">>]
    ELSE IF "venta_total" \in d.cols /\ NumNulos(d, "venta_total") = Len(d.filas)
         THEN [es_valido |-> FALSE, errores |-> <<"venta_total_vacia">>]
    ELSE IF "venta_timestamp" \in d.cols /\ d.dt_ts # "datetime64"
         THEN [es_valido |-> FALSE, errores |-> <<"venta_timestamp_no_fecha">>]
    ELSE LET errores == ErrorNulos(d, "nombre") \o ErrorNulos(d, "categoria")
         IN [es_valido |-> Len(errores) = 0,
             errores |-> IF errores = <<>> THEN <<>> ELSE <<errores[1]>>]

\* the check of the amount column looking at its type only
ErrorVentaSoloTipo(d) ==
    IF "venta_total" \in d.cols /\ d.dt_venta # "float64"
    THEN <<"venta_total_no_numerica">>
    ELSE <<>>

\* the check of the amount column: it must be numeric-typed and, when it
\* is, not entirely null
ErrorVenta(d) ==
    IF "venta_total" \in d.cols
    THEN IF d.dt_venta # "float64"
         THEN <<"venta_total_no_numerica">>
         ELSE IF NumNulos(d, "venta_total") = Len(d.filas)
              THEN <<"venta_total_vacia">>
              ELSE <<>>
    ELSE <<>>

validar_datos(d) ==
    IF d.es_none THEN [es_valido |-> FALSE, errores |-> <<"es_none">>]
    ELSE IF empty(d) THEN [es_valido |-> FALSE, errores |-> <<"vacio">>]
    ELSE
      LET e_basica == IF d.cols \cap ColumnasBasicas = {}
                      THEN <<"sin_columna_basica">> ELSE <<>>
          e_venta == ErrorVenta(d)
          e_fecha == IF "venta_timestamp" \in d.cols /\ d.dt_ts # "datetime64"
                     THEN <<"venta_timestamp_no_fecha">> ELSE <<>>
          errores == e_basica \o e_venta \o e_fecha
                     \o ErrorNulos(d, "nombre") \o ErrorNulos(d, "categoria")
      IN [es_valido |-> Len(errores) = 0, errores |-> errores]

----------------------------------------------------------------------------
(* DataAnalysisService.limpiar_datos *)

\* dropna(how='all'): a row goes when every cell of a present column is null
dropna_all(d) ==
    LET Queda(f) == \E col \in d.cols : ~isnull(Celda(f, col))
    IN [d EXCEPT !.filas = SelectSeq(d.filas, Queda)]

\* to_numeric(errors='coerce'), fillna(0), then the rows with venta_total >= 0
fillna0(c) == IF isnull(c) THEN Num(0) ELSE c

NoNegativa(f) == f.venta_total.n >= 0

\* the sign test applied to the raw cells, before the coercion
LimpiarVentaTotalFiltraAntes(d) ==
    IF "venta_total" \notin d.cols THEN d
    ELSE
      LET NoNegativaCruda(f) == ~(f.venta_total.t = "num" /\ f.venta_total.n < 0)
          quedan == SelectSeq(d.filas, NoNegativaCruda)
      IN [d EXCEPT !.dt_venta = "float64",
                   !.filas = [i \in 1..Len(quedan) |->
                      [quedan[i] EXCEPT !.venta_total = fillna0(to_numeric(@))]]]

LimpiarVentaTotal(d) ==
    IF "venta_total" \notin d.cols THEN d
    ELSE
      LET conv == [i \in 1..Len(d.filas) |->
                     [d.filas[i] EXCEPT !.venta_total = fillna0(to_numeric(@))]]
      IN [d EXCEPT !.dt_venta = "float64", !.filas = SelectSeq(conv, NoNegativa)]

\* the replacement made before the strip
LimpiarCeldaTextoReemplazaAntes(c) ==
    LET txt == astype_str(c)
    IN Str(strip(IF txt \in {<<>>, <<"nan">>, <<"None">>} THEN SinEspecificar ELSE txt))

\* astype(str).str.strip(), then replace(['', 'nan', 'None'], 'Sin especificar')
LimpiarCeldaTexto(c) ==
    LET txt == strip(astype_str(c))
    IN Str(IF txt \in {<<>>, <<"nan">>, <<"None">>} THEN SinEspecificar ELSE txt)

LimpiarTexto(d) ==
    [d EXCEPT !.filas =
        [i \in 1..Len(d.filas) |->
            [d.filas[i] EXCEPT
                !.nombre = IF "nombre" \in d.cols THEN LimpiarCeldaTexto(@) ELSE @,
                !.categoria = IF "categoria" \in d.cols THEN LimpiarCeldaTexto(@) ELSE @]]]

\* to_datetime(errors='coerce'), then dropna(subset=['venta_timestamp'])
LimpiarFechas(d) ==
    IF "venta_timestamp" \notin d.cols THEN d
    ELSE
      LET conv == [i \in 1..Len(d.filas) |->
                     [d.filas[i] EXCEPT !.venta_timestamp = to_datetime(@)]]
          ConFecha(f) == ~isnull(f.venta_timestamp)
      IN [d EXCEPT !.dt_ts = "datetime64", !.filas = SelectSeq(conv, ConFecha)]

\* the body of limpiar_datos for a DataFrame (a None reference raises)
limpiar_datos(d) == LimpiarFechas(LimpiarTexto(LimpiarVentaTotal(dropna_all(d))))

----------------------------------------------------------------------------
(* Series: groupby, sum, nlargest *)

\* the order of str values (code points), token by token
Alfabeto == <<" ", "A", "B", "C", "D", "E", "F", "G", "H", "I", "J", "K", "L", "M",
              "X", "Y">>

Ord(tok) == CHOOSE i \in 1..Len(Alfabeto) : Alfabeto[i] = tok

RECURSIVE MenorStr(_, _)
MenorStr(a, b) ==
    IF a = <<>> THEN b # <<>>
    ELSE IF b = <<>> THEN FALSE
    ELSE IF Head(a) = Head(b) THEN MenorStr(Tail(a), Tail(b))
    ELSE Ord(Head(a)) < Ord(Head(b))

\* the order of group keys: strings by code point, periods by time
MenorClave(a, b) == IF a.t = "str" THEN MenorStr(a.s, b.s) ELSE a.n < b.n

\* Series.sum() of the venta_total cells of the rows (NaN skipped)
RECURSIVE SumaVentas(_)
SumaVentas(fs) ==
    IF fs = <<>> THEN 0
    ELSE (IF Head(fs).venta_total.t = "num" THEN Head(fs).venta_total.n ELSE 0)
         + SumaVentas(Tail(fs))

\* the keys of groupby(col): the non-null values of the column
Claves(d, col) ==
    {Celda(d.filas[i], col) : i \in {j \in 1..Len(d.filas) : ~isnull(Celda(d.filas[j], col))}}

\* groupby sorts the group keys (sort=True)
RECURSIVE OrdenarClaves(_)
OrdenarClaves(S) ==
    IF S = {} THEN <<>>
    ELSE LET m == CHOOSE x \in S : \A y \in S : x = y \/ MenorClave(x, y)
         IN <<m>> \o OrdenarClaves(S \ {m})

\* the keys in the order their first row appears
RECURSIVE ClavesPorAparicion(_, _, _)
ClavesPorAparicion(fs, col, vistas) ==
    IF fs = <<>> THEN <<>>
    ELSE LET c == Celda(Head(fs), col)
         IN IF isnull(c) \/ c \in vistas
            THEN ClavesPorAparicion(Tail(fs), col, vistas)
            ELSE <<c>> \o ClavesPorAparicion(Tail(fs), col, vistas \cup {c})

\* groupby(col, sort=False): the groups in the order they are met
OrdenGruposPorAparicion(d, col) == ClavesPorAparicion(d.filas, col, {})

\* the order of the groups of datos.groupby(col)
OrdenGrupos(d, col) == OrdenarClaves(Claves(d, col))

\* datos.groupby(col)['venta_total'].sum(): one entry per key, keys sorted
groupby_sum(d, col) ==
    LET claves == OrdenGrupos(d, col)
    IN [k \in 1..Len(claves) |->
          [clave |-> claves[k],
           valor |-> SumaVentas(SelectSeq(d.filas, LAMBDA f : Celda(f, col) = claves[k]))]]

\* Series.nlargest(n), keep='first': descending by value, equal values in
\* the order of the series
RECURSIVE nlargest(_, _)
nlargest(n, serie) ==
    IF n = 0 \/ serie = <<>> THEN <<>>
    ELSE LET i == CHOOSE i \in 1..Len(serie) :
                    /\ \A j \in 1..Len(serie) : serie[j].valor <= serie[i].valor
                    /\ \A j \in 1..(i - 1) : serie[j].valor < serie[i].valor
         IN <<serie[i]>>
            \o nlargest(n - 1, SubSeq(serie, 1, i - 1) \o SubSeq(serie, i + 1, Len(serie)))

\* datos[col].value_counts(): occurrences per value, most frequent first
value_counts(d, col) ==
    LET claves == ClavesPorAparicion(d.filas, col, {})
        cuenta == [k \in 1..Len(claves) |->
                     [clave |-> claves[k],
                      valor |-> Cardinality({i \in 1..Len(d.filas) :
                                               Celda(d.filas[i], col) = claves[k]})]]
    IN nlargest(Len(cuenta), cuenta)

----------------------------------------------------------------------------
(* DataAnalysisService.generar_resumen and its sections *)

TopN == 10
MaxProductosAlerta == 10
DiasCriticos == 7
UltimosMeses == 6

Min(a, b) == IF a < b THEN a ELSE b

\* min() / max() of the datetime column (NaT skipped; NaT when all are)
FechaExtrema(d, mayor) ==
    LET S == {d.filas[i].venta_timestamp.n :
                 i \in {j \in 1..Len(d.filas) : d.filas[j].venta_timestamp.t = "dt"}}
    IN IF S = {} THEN NaT
       ELSE Fecha(CHOOSE x \in S : \A y \in S : IF mayor THEN y <= x ELSE x <= y)

_generar_info_basica(d) ==
    [total_filas |-> Len(d.filas),
     columnas |-> d.cols,
     periodo |-> IF "venta_timestamp" \in d.cols
                 THEN <<FechaExtrema(d, FALSE), FechaExtrema(d, TRUE)>>
                 ELSE <<>>]

\* num_transacciones counting the records with amount >= 0
_generar_metricas_ventas_cuenta_ceros(d) ==
    [ventas_totales |-> SumaVentas(d.filas),
     ticket_promedio |->
        [num |-> SumaVentas(d.filas),
         den |-> Len(SelectSeq(d.filas, LAMBDA f : f.venta_total.t = "num"))],
     num_transacciones |->
        Len(SelectSeq(d.filas, LAMBDA f : f.venta_total.t = "num" /\ f.venta_total.n >= 0))]

\* sum(), mean() (a quotient, kept as numerator and denominator: the sum and
\* the count of the non-null values) and len(datos[datos['venta_total'] > 0])
_generar_metricas_ventas(d) ==
    [ventas_totales |-> SumaVentas(d.filas),
     ticket_promedio |->
        [num |-> SumaVentas(d.filas),
         den |-> Len(SelectSeq(d.filas, LAMBDA f : f.venta_total.t = "num"))],
     num_transacciones |->
        Len(SelectSeq(d.filas, LAMBDA f : f.venta_total.t = "num" /\ f.venta_total.n > 0))]

_generar_top_productos(d) == nlargest(TopN, groupby_sum(d, "nombre"))

_generar_analisis_categoria(d) ==
    IF "venta_total" \in d.cols THEN groupby_sum(d, "categoria")
    ELSE value_counts(d, "categoria")

\* datos['diasParaCaducar'] <= 7 raises TypeError on a str cell
AlertasFalla(d) == \E i \in 1..Len(d.filas) : d.filas[i].diasParaCaducar.t = "str"

_generar_alertas_inventario(d) ==
    LET criticos == SelectSeq(d.filas,
                       LAMBDA f : f.diasParaCaducar.t = "num"
                                  /\ f.diasParaCaducar.n <= DiasCriticos)
    IN [cantidad |-> Len(criticos),
        productos |-> IF "nombre" \in d.cols
                      THEN [i \in 1..Min(MaxProductosAlerta, Len(criticos)) |->
                              criticos[i].nombre]
                      ELSE <<>>]

\* groupby('mes_venta')['venta_total'].sum().tail(6)
ventas_mensuales(d) ==
    LET g == groupby_sum(d, "mes_venta")
    IN SubSeq(g, Len(g) - Min(UltimosMeses, Len(g)) + 1, Len(g))

\* idxmax() / idxmin() of an empty series raises ValueError
TemporalFalla(d) == ventas_mensuales(d) = <<>>

_generar_analisis_temporal(d) ==
    LET vm == ventas_mensuales(d)
        imax == CHOOSE i \in 1..Len(vm) :
                    /\ \A j \in 1..Len(vm) : vm[j].valor <= vm[i].valor
                    /\ \A j \in 1..(i - 1) : vm[j].valor < vm[i].valor
        imin == CHOOSE i \in 1..Len(vm) :
                    /\ \A j \in 1..Len(vm) : vm[j].valor >= vm[i].valor
                    /\ \A j \in 1..(i - 1) : vm[j].valor > vm[i].valor
    IN [ventas_mensuales |-> vm, mejor_mes |-> vm[imax].clave, peor_mes |-> vm[imin].clave]

\* the section methods in the order generar_resumen calls them
Secciones == <<"info_basica", "metricas_ventas", "top_productos", "por_categoria",
               "alertas_inventario", "tendencias">>

\* the column test that guards the body of a section method
SeccionAplica(d, sec) ==
    CASE sec = "info_basica" -> TRUE
      [] sec = "metricas_ventas" -> "venta_total" \in d.cols
      [] sec = "top_productos" -> "nombre" \in d.cols /\ "venta_total" \in d.cols
      [] sec = "por_categoria" -> "categoria" \in d.cols
      [] sec = "alertas_inventario" -> "diasParaCaducar" \in d.cols
      [] OTHER -> "mes_venta" \in d.cols /\ "venta_total" \in d.cols

\* the section method raises
SeccionFalla(d, sec) ==
    /\ SeccionAplica(d, sec)
    /\ CASE sec = "alertas_inventario" -> AlertasFalla(d)
         [] sec = "tendencias" -> TemporalFalla(d)
         [] OTHER -> FALSE

SeccionValor(d, sec) ==
    CASE sec = "info_basica" -> _generar_info_basica(d)
      [] sec = "metricas_ventas" -> _generar_metricas_ventas(d)
      [] sec = "top_productos" -> _generar_top_productos(d)
      [] sec = "por_categoria" -> _generar_analisis_categoria(d)
      [] sec = "alertas_inventario" -> _generar_alertas_inventario(d)
      [] OTHER -> _generar_analisis_temporal(d)

\* how many section methods run: up to and including the first that raises
NumSeccionesEjecutadas(d) ==
    IF \E k \in 1..Len(Secciones) : SeccionFalla(d, Secciones[k])
    THEN CHOOSE k \in 1..Len(Secciones) :
            /\ SeccionFalla(d, Secciones[k])
            /\ \A j \in 1..(k - 1) : ~SeccionFalla(d, Secciones[j])
    ELSE Len(Secciones)

\* generar_resumen storing the dataset and resetting resumen before it validates
generar_resumen_asigna_antes(d, res0, df0) ==
    IF ~validar_datos(d).es_valido
    THEN [error |-> "DataValidationError", resumen |-> [x \in {} |-> 0], df_actual |-> d,
          llamadas |-> <<"validar_datos">>]
    ELSE
      LET n == NumSeccionesEjecutadas(d)
          falla == SeccionFalla(d, Secciones[n])
          hechas == {Secciones[k] : k \in {j \in 1..n :
                        SeccionAplica(d, Secciones[j]) /\ ~SeccionFalla(d, Secciones[j])}}
      IN [error |-> IF falla THEN "DataAnalysisError" ELSE "ninguno",
          resumen |-> [sec \in hechas |-> SeccionValor(d, sec)],
          df_actual |-> d,
          llamadas |-> <<"validar_datos">> \o SubSeq(Secciones, 1, n)]

\* generar_resumen adding the sections to the resumen it holds, without
\* emptying it first
generar_resumen_sin_reinicio(d, res0, df0) ==
    IF ~validar_datos(d).es_valido
    THEN [error |-> "DataValidationError", resumen |-> res0, df_actual |-> df0,
          llamadas |-> <<"validar_datos">>]
    ELSE
      LET n == NumSeccionesEjecutadas(d)
          falla == SeccionFalla(d, Secciones[n])
          hechas == {Secciones[k] : k \in {j \in 1..n :
                        SeccionAplica(d, Secciones[j]) /\ ~SeccionFalla(d, Secciones[j])}}
      IN [error |-> IF falla THEN "DataAnalysisError" ELSE "ninguno",
          resumen |-> [sec \in hechas \cup DOMAIN res0 |->
                          IF sec \in hechas THEN SeccionValor(d, sec) ELSE res0[sec]],
          df_actual |-> d,
          llamadas |-> <<"validar_datos">> \o SubSeq(Secciones, 1, n)]

\* generar_resumen(d) on a service holding (res0, df0): the exception that
\* leaves the method, the service fields afterwards, the components invoked
generar_resumen(d, res0, df0) ==
    IF ~validar_datos(d).es_valido
    THEN [error |-> "DataValidationError", resumen |-> res0, df_actual |-> df0,
          llamadas |-> <<"validar_datos">>]
    ELSE
      LET n == NumSeccionesEjecutadas(d)
          falla == SeccionFalla(d, Secciones[n])
          hechas == {Secciones[k] : k \in {j \in 1..n :
                        SeccionAplica(d, Secciones[j]) /\ ~SeccionFalla(d, Secciones[j])}}
      IN [error |-> IF falla THEN "DataAnalysisError" ELSE "ninguno",
          resumen |-> [sec \in hechas |-> SeccionValor(d, sec)],
          df_actual |-> d,
          llamadas |-> <<"validar_datos">> \o SubSeq(Secciones, 1, n)]

----------------------------------------------------------------------------
(* The datasets the operations are applied to *)

\* every DataFrame with the columns c, at most n rows and, in each column,
\* cells of the given set (a column outside c holds no cell)
Dominio(c, col, D) == IF col \in c THEN D ELSE {Ausente}

Frames(c, dv, dt, n, Dnom, Dcat, Dvt, Dts, Dcli, Ddias, Dmes) ==
    LET Filas == [idx : {0},
                  nombre : Dominio(c, "nombre", Dnom),
                  categoria : Dominio(c, "categoria", Dcat),
                  venta_total : Dominio(c, "venta_total", Dvt),
                  venta_timestamp : Dominio(c, "venta_timestamp", Dts),
                  cliente_id : Dominio(c, "cliente_id", Dcli),
                  diasParaCaducar : Dominio(c, "diasParaCaducar", Ddias),
                  mes_venta : Dominio(c, "mes_venta", Dmes)]
    IN UNION {{DataFrame(c,
                         IF "venta_total" \in c THEN dv ELSE "-",
                         IF "venta_timestamp" \in c THEN dt ELSE "-",
                         [i \in 1..k |-> [f[i] EXCEPT !.idx = i]]) :
                  f \in [1..k -> Filas]} : k \in 0..n}

\* what a caller holds before any call. objeto tells whether the dataset
\* returned (df) is the object that was passed in ("entrada") or a new one
\* ("nuevo").
RetNada == [op |-> "ninguna", es_valido |-> FALSE, errores |-> <<>>, df |-> DfNone,
            objeto |-> "ninguno", arg |-> <<>>, valor |-> <<>>]

ResumenVacio == [x \in {} |-> 0]

\* the state of a freshly constructed service and of its caller
InitServicio ==
    /\ pc = "inicio"
    /\ resumen = ResumenVacio
    /\ df_actual = DfNone
    /\ ret = RetNada
    /\ error = "ninguno"
    /\ llamadas = <<>>
    /\ archivos = {}

----------------------------------------------------------------------------
(* validar_datos applied to bounded datasets *)

ColumnasValidar == {"nombre", "categoria", "venta_total", "venta_timestamp", "cliente_id"}

DatasetsValidar ==
    {DfNone} \cup
    UNION {UNION {UNION {
        Frames(c, dv, dt, MaxFilas,
               {Str(<<"A">>), NaN}, {Str(<<"X">>), None},
               IF dv = "float64" THEN {Num(1), NaN} ELSE {Str(<<"x">>), None},
               IF dt = "datetime64" THEN {Fecha(1)} ELSE {Str(<<"2024-01-10">>)},
               {Str(<<"c1">>)}, {Ausente}, {Ausente})
        : dt \in IF "venta_timestamp" \in c THEN {"datetime64", "object"} ELSE {"-"}}
        : dv \in IF "venta_total" \in c THEN {"float64", "object"} ELSE {"-"}}
        : c \in SUBSET ColumnasValidar}

InitValidar == InitServicio /\ datos \in DatasetsValidar

\* validar_datos raising on a None reference instead of reporting it
ValidarLanzaSiNone ==
    /\ UNCHANGED archivos
    /\ pc = "inicio"
    /\ ret' = IF datos.es_none THEN RetNada
              ELSE [RetNada EXCEPT !.op = "validar_datos",
                                   !.es_valido = validar_datos(datos).es_valido,
                                   !.errores = validar_datos(datos).errores]
    /\ error' = IF datos.es_none THEN "DataValidationError" ELSE "ninguno"
    /\ llamadas' = Append(llamadas, "validar_datos")
    /\ pc' = "validado"
    /\ UNCHANGED <<datos, resumen, df_actual>>

\* a caller invokes validar_datos(datos); the method has no raise statement
Validar ==
    /\ UNCHANGED archivos
    /\ pc = "inicio"
    /\ ret' = [RetNada EXCEPT !.op = "validar_datos",
                              !.es_valido = validar_datos(datos).es_valido,
                              !.errores = validar_datos(datos).errores]
    /\ error' = "ninguno"
    /\ llamadas' = Append(llamadas, "validar_datos")
    /\ pc' = "validado"
    /\ UNCHANGED <<datos, resumen, df_actual>>

NextValidar == Validar

SpecValidar == InitValidar /\ [][NextValidar]_vars

Rango(sq) == {sq[i] : i \in 1..Len(sq)}

ReglaBasica(d) == \A col \in {"nombre", "categoria", "venta_total"} : col \notin d.cols

ReglaVenta(d) ==
    /\ "venta_total" \in d.cols
    /\ \/ d.dt_venta # "float64"
       \/ \A i \in 1..Len(d.filas) : d.filas[i].venta_total.t \in {"nan", "none"}

ReglaFecha(d) == "venta_timestamp" \in d.cols /\ d.dt_ts # "datetime64"

\* more than 80% of the cells are null: fewer than one in five is not
ReglaEscasa(d, col) ==
    /\ col \in d.cols
    /\ 5 * Cardinality({i \in 1..Len(d.filas) :
                          Celda(d.filas[i], col).t \notin {"nan", "none", "nat"}})
         < Len(d.filas)

Uno(b) == IF b THEN 1 ELSE 0

NumReglasVioladas(d) ==
    Uno(ReglaBasica(d)) + Uno(ReglaVenta(d)) + Uno(ReglaFecha(d))
    + Uno(ReglaEscasa(d, "nombre")) + Uno(ReglaEscasa(d, "categoria"))

\* C5: on a non-empty dataset validar_datos reports exactly one error per
\* violated rule, every rule being evaluated whatever the others give, and
\* is_valid holds exactly when there is no error; an empty dataset gives
\* invalid with the single "empty" error.
C5_OneErrorPerRule ==
    (pc = "validado" /\ ~datos.es_none) =>
        IF empty(datos)
        THEN ~ret.es_valido /\ ret.errores = <<"vacio">>
        ELSE /\ Len(ret.errores) = NumReglasVioladas(datos)
             /\ ReglaBasica(datos) <=> "sin_columna_basica" \in Rango(ret.errores)
             /\ ReglaVenta(datos) <=>
                  Rango(ret.errores) \cap {"venta_total_no_numerica", "venta_total_vacia"} # {}
             /\ ReglaFecha(datos) <=> "venta_timestamp_no_fecha" \in Rango(ret.errores)
             /\ ReglaEscasa(datos, "nombre") <=> "nulos_nombre" \in Rango(ret.errores)
             /\ ReglaEscasa(datos, "categoria") <=> "nulos_categoria" \in Rango(ret.errores)
             /\ ret.es_valido <=> ret.errores = <<>>

C5_Witness ==
    /\ pc = "validado"
    /\ ~empty(datos)
    /\ Len(ret.errores) = 4
    /\ ReglaVenta(datos) /\ ReglaFecha(datos)
    /\ ReglaEscasa(datos, "nombre") /\ ReglaEscasa(datos, "categoria")

----------------------------------------------------------------------------
(* limpiar_datos applied to bounded raw datasets, and again to its result *)

DatasetsLimpiar ==
    {DfNone}
    \cup Frames({"venta_total", "nombre"}, "object", "-", MaxFilas,
                {Str(<<" ", "A", " ">>), NaN}, {Ausente},
                {Num(-1), Num(2), NaN, Str(<<"1">>), Str(<<"-", "1">>),
                 Str(<<"x">>), Str(<<>>)},
                {Ausente}, {Ausente}, {Ausente}, {Ausente})
    \cup Frames({"nombre", "categoria"}, "-", "-", MaxFilas,
                {Str(<<"A">>), Str(<<" ", "A", " ", "B", " ">>), Str(<<" ">>), Str(<<>>),
                 Str(<<"nan">>), Str(<<" ", "None">>), NaN, None},
                {Str(<<"X">>), NaN},
                {Ausente}, {Ausente}, {Ausente}, {Ausente}, {Ausente})
    \cup Frames({"venta_timestamp", "venta_total"}, "object", "object", MaxFilas,
                {Ausente}, {Ausente},
                {Num(1), Str(<<"-", "1">>), NaN},
                {Fecha(1), NaT, Str(<<"2024-02-10">>), Str(<<"x">>), None},
                {Ausente}, {Ausente}, {Ausente})
    \cup Frames({"nombre", "categoria", "venta_total", "venta_timestamp", "cliente_id"},
                "object", "object", MaxFilas,
                {Str(<<" ", "A">>), NaN}, {Str(<<" ">>), NaN},
                {Num(-1), Str(<<"2">>), NaN},
                {Str(<<"2024-01-10">>), NaT},
                {NaN}, {Ausente}, {Ausente})
    \cup Frames({"cliente_id"}, "-", "-", MaxFilas,
                {Ausente}, {Ausente}, {Ausente}, {Ausente},
                {Str(<<"c1">>), NaN}, {Ausente}, {Ausente})

InitLimpiar == InitServicio /\ datos \in DatasetsLimpiar

\* limpiar_datos working on the object it is given, without the copy and
\* with its steps done in place
ObjetosTrasLimpiarEnSitio(d) ==
    [entrada |-> limpiar_datos(d), salida |-> limpiar_datos(d), objeto |-> "entrada"]

\* the objects after limpiar_datos(d): every step works on df_limpio, which
\* starts as datos.copy() and is rebound to the new frames that dropna and
\* the filters return; the column assignments write into df_limpio. The
\* frame passed in is only read.
ObjetosTrasLimpiar(d) ==
    [entrada |-> d, salida |-> limpiar_datos(d), objeto |-> "nuevo"]

\* a caller invokes limpiar_datos(datos); datos.copy() on a None reference
\* raises, which the method turns into DataProcessingError
Limpiar ==
    /\ UNCHANGED archivos
    /\ pc = "inicio"
    /\ IF datos.es_none
       THEN ret' = RetNada /\ error' = "DataProcessingError" /\ datos' = datos
       ELSE /\ ret' = [RetNada EXCEPT !.op = "limpiar_datos",
                                      !.df = ObjetosTrasLimpiar(datos).salida,
                                      !.objeto = ObjetosTrasLimpiar(datos).objeto]
            /\ datos' = ObjetosTrasLimpiar(datos).entrada
            /\ error' = "ninguno"
    /\ llamadas' = Append(llamadas, "limpiar_datos")
    /\ pc' = "limpio"
    /\ UNCHANGED <<resumen, df_actual>>

\* the caller hands the cleaned dataset to limpiar_datos again
LimpiarOtraVez ==
    /\ UNCHANGED archivos
    /\ pc = "limpio"
    /\ error = "ninguno"
    /\ ret' = [ret EXCEPT !.df = limpiar_datos(ret.df)]
    /\ llamadas' = Append(llamadas, "limpiar_datos")
    /\ pc' = "relimpio"
    /\ UNCHANGED <<datos, resumen, df_actual, error>>

NextLimpiar == Limpiar \/ LimpiarOtraVez

SpecLimpiar == InitLimpiar /\ [][NextLimpiar]_vars

\* C6: cleaning is idempotent: cleaning a cleaned dataset returns the same
\* rows, in the same order, with the same values.
C6_Idempotent == [][(pc = "limpio" /\ pc' = "relimpio") => ret'.df = ret.df]_vars

C6_Witness ==
    /\ pc = "relimpio"
    /\ Len(ret.df.filas) > 0
    /\ Len(ret.df.filas) < Len(datos.filas)
    /\ \E i \in 1..Len(ret.df.filas) : ret.df.filas[i].nombre = Str(SinEspecificar)

\* the row of the result that carries the index label i, if any
FilasConIdx(d, i) == {j \in 1..Len(d.filas) : d.filas[j].idx = i}

\* a row the cleaner drops for a reason other than its amount: every cell
\* is null, or its timestamp does not parse
CaePorOtraRazon(d, f) ==
    \/ \A col \in d.cols : Celda(f, col).t \in {"nan", "none", "nat"}
    \/ "venta_timestamp" \in d.cols /\ to_datetime(f.venta_timestamp) = NaT

\* C7: after limpiar_datos every amount is a number >= 0; a value that does
\* not coerce (or is missing) becomes 0 and its row stays, a row whose coerced
\* amount is negative goes, the sign being that of the coerced value.
C7_AmountsNonNegative ==
    (pc = "limpio" /\ error = "ninguno" /\ "venta_total" \in datos.cols) =>
        /\ \A j \in 1..Len(ret.df.filas) :
              ret.df.filas[j].venta_total.t = "num" /\ ret.df.filas[j].venta_total.n >= 0
        /\ \A i \in 1..Len(datos.filas) :
              LET f == datos.filas[i]
                  c == to_numeric(f.venta_total)
                  enSalida == FilasConIdx(ret.df, f.idx)
              IN /\ (c.t = "num" /\ c.n < 0) => enSalida = {}
                 /\ (c.t # "num" /\ ~CaePorOtraRazon(datos, f)) =>
                       \E j \in enSalida : ret.df.filas[j].venta_total = Num(0)
                 /\ (c.t = "num" /\ c.n >= 0 /\ ~CaePorOtraRazon(datos, f)) =>
                       \E j \in enSalida : ret.df.filas[j].venta_total = c

C7_Witness ==
    /\ pc = "limpio"
    /\ error = "ninguno"
    /\ Len(datos.filas) = 2
    /\ datos.filas[1].venta_total = Str(<<"-", "1">>)
    /\ datos.filas[2].venta_total = Str(<<"x">>)
    /\ Len(ret.df.filas) = 1
    /\ ret.df.filas[1].idx = 2
    /\ ret.df.filas[1].venta_total = Num(0)

----------------------------------------------------------------------------
(* generar_resumen called on one service, once and then once more *)

\* datasets of MaxEntidades entities, one row each, named in ascending or in
\* descending order
FramesAnchos ==
    {DataFrame({"nombre", "venta_total"}, "float64", "-",
               [i \in 1..MaxEntidades |->
                  Fila(i,
                       Str(<<Alfabeto[1 + (IF asc THEN i ELSE MaxEntidades + 1 - i)]>>),
                       Ausente, Num(v[i]), Ausente, Ausente, Ausente, Ausente)]) :
        v \in [1..MaxEntidades -> {1, 2}], asc \in BOOLEAN}

DatasetsResumen ==
    {DfNone}
    \cup Frames({"nombre", "venta_total"}, "float64", "-", MaxFilas,
                {Str(<<"A">>), Str(<<"B">>), NaN}, {Ausente},
                {Num(-1), Num(0), Num(2), NaN},
                {Ausente}, {Ausente}, {Ausente}, {Ausente})
    \cup Frames({"nombre", "categoria"}, "-", "-", MaxFilas,
                {Str(<<"A">>)}, {Str(<<"X">>), Str(<<"Y">>), NaN},
                {Ausente}, {Ausente}, {Ausente}, {Ausente}, {Ausente})
    \cup Frames({"categoria", "venta_total", "venta_timestamp"}, "float64", "datetime64",
                MaxFilas,
                {Ausente}, {Str(<<"X">>), Str(<<"Y">>)},
                {Num(1), Num(3)}, {Fecha(1), Fecha(2), NaT},
                {Ausente}, {Ausente}, {Ausente})
    \cup Frames({"nombre", "diasParaCaducar"}, "-", "-", MaxFilas,
                {Str(<<"A">>), Str(<<"B">>)}, {Ausente}, {Ausente}, {Ausente}, {Ausente},
                {Num(3), Num(30), NaN, Str(<<"x">>)}, {Ausente})
    \cup Frames({"venta_total", "mes_venta"}, "float64", "-", MaxFilas,
                {Ausente}, {Ausente}, {Num(1), Num(2)}, {Ausente}, {Ausente}, {Ausente},
                {Periodo(1), Periodo(2), NaT})
    \cup Frames({"venta_total", "cliente_id"}, "object", "-", MaxFilas,
                {Ausente}, {Ausente}, {Str(<<"x">>), Num(1)}, {Ausente},
                {Str(<<"c1">>)}, {Ausente}, {Ausente})
    \cup FramesAnchos

UnaFila(nom, vt, cli, dias) ==
    <<Fila(1, nom, Ausente, vt, Ausente, cli, dias, Ausente)>>

\* the datasets of the second call: rejected ones, an accepted one, and one
\* on which a section raises
DatasetsSegundos ==
    {DfNone,
     DataFrame({"nombre"}, "-", "-", <<>>),
     DataFrame({"cliente_id"}, "-", "-", UnaFila(Ausente, Ausente, Str(<<"c1">>), Ausente)),
     DataFrame({"venta_total"}, "float64", "-", UnaFila(Ausente, NaN, Ausente, Ausente)),
     DataFrame({"nombre", "venta_total"}, "float64", "-",
               UnaFila(Str(<<"A">>), Num(1), Ausente, Ausente)),
     DataFrame({"nombre", "diasParaCaducar"}, "-", "-",
               UnaFila(Str(<<"A">>), Ausente, Ausente, Str(<<"x">>)))}

InitResumen == InitServicio /\ datos = DfNone

\* a caller invokes generar_resumen(d) on the service
GenerarResumen ==
    /\ UNCHANGED archivos
    /\ pc \in {"inicio", "analizado"}
    /\ \E d \in IF pc = "inicio" THEN DatasetsResumen ELSE DatasetsSegundos :
          LET r == generar_resumen(d, resumen, df_actual)
          IN /\ datos' = d
             /\ error' = r.error
             /\ resumen' = r.resumen
             /\ df_actual' = r.df_actual
             /\ llamadas' = r.llamadas
    /\ ret' = [RetNada EXCEPT !.op = "generar_resumen"]
    /\ pc' = IF pc = "inicio" THEN "analizado" ELSE "reanalizado"

NextResumen == GenerarResumen

SpecResumen == InitResumen /\ [][NextResumen]_vars

\* C2: generar_resumen on a dataset validar_datos rejects raises
\* DataValidationError before any section is computed and leaves resumen and
\* df_actual as they were.
C2_RejectedLeavesState ==
    [][(pc' # pc /\ ~validar_datos(datos').es_valido) =>
          /\ error' = "DataValidationError"
          /\ resumen' = resumen
          /\ df_actual' = df_actual
          /\ llamadas' = <<"validar_datos">>]_vars

C2_Witness ==
    /\ pc = "reanalizado"
    /\ error = "DataValidationError"
    /\ ~datos.es_none
    /\ DOMAIN resumen # {}
    /\ ~df_actual.es_none
    /\ df_actual # datos

\* the call was accepted by the validator
Aceptado == pc # "inicio" /\ error # "DataValidationError"

\* the rows of datos that carry an amount
ConMonto == {i \in 1..Len(datos.filas) : datos.filas[i].venta_total.t = "num"}

RECURSIVE SumaMontos(_)
SumaMontos(S) ==
    IF S = {} THEN 0
    ELSE LET i == CHOOSE x \in S : TRUE
         IN datos.filas[i].venta_total.n + SumaMontos(S \ {i})

\* C8: for an accepted dataset with an amount column, ventas_totales is the
\* sum of the amounts, ticket_promedio their mean, and num_transacciones the
\* number of records whose amount is > 0 (an amount of 0 is not counted).
C8_SalesMetrics ==
    (Aceptado /\ "venta_total" \in datos.cols) =>
        /\ "metricas_ventas" \in DOMAIN resumen
        /\ LET m == resumen["metricas_ventas"]
           IN /\ m.ventas_totales = SumaMontos(ConMonto)
              /\ m.ticket_promedio.den > 0
              /\ m.ticket_promedio.num * Cardinality(ConMonto)
                    = SumaMontos(ConMonto) * m.ticket_promedio.den
              /\ m.num_transacciones
                    = Cardinality({i \in ConMonto : datos.filas[i].venta_total.n > 0})

C8_Witness ==
    /\ Aceptado
    /\ "metricas_ventas" \in DOMAIN resumen
    /\ \E i \in ConMonto : datos.filas[i].venta_total.n = 0
    /\ resumen["metricas_ventas"].num_transacciones = 1
    /\ resumen["metricas_ventas"].ventas_totales = 2

RECURSIVE SumaValores(_)
SumaValores(serie) ==
    IF serie = <<>> THEN 0 ELSE Head(serie).valor + SumaValores(Tail(serie))

\* C9 as stated: for every accepted dataset with entity_name and amount,
\* top_productos has at most 10 entries, in descending order of summed
\* amount, and its values sum to at most ventas_totales.
C9_TopBounded ==
    (Aceptado /\ {"nombre", "venta_total"} \subseteq datos.cols) =>
        LET top == resumen["top_productos"]
        IN /\ Len(top) <= 10
           /\ \A i \in 1..(Len(top) - 1) : top[i].valor >= top[i + 1].valor
           /\ SumaValores(top) <= resumen["metricas_ventas"].ventas_totales

\* the entities of datos, the total of one, its first row, its rank
Entidades == {datos.filas[i].nombre :
                 i \in {j \in 1..Len(datos.filas) : datos.filas[j].nombre.t = "str"}}

TotalDe(e) == SumaMontos({i \in ConMonto : datos.filas[i].nombre = e})

PrimeraFila(e) ==
    CHOOSE i \in 1..Len(datos.filas) :
        /\ datos.filas[i].nombre = e
        /\ \A j \in 1..(i - 1) : datos.filas[j].nombre # e

EnTop(e) == \E k \in 1..Len(resumen["top_productos"]) : resumen["top_productos"][k].clave = e

Puesto(e) ==
    CHOOSE k \in 1..Len(resumen["top_productos"]) : resumen["top_productos"][k].clave = e

\* C10 as stated: of two entities with equal totals, the one whose first
\* record comes earlier in the dataset ranks first, and is the one kept when
\* the tie straddles the 10th place.
C10_TiesByFirstEncounter ==
    (Aceptado /\ {"nombre", "venta_total"} \subseteq datos.cols) =>
        \A a, b \in Entidades :
            (TotalDe(a) = TotalDe(b) /\ PrimeraFila(a) < PrimeraFila(b) /\ EnTop(b)) =>
                (EnTop(a) /\ Puesto(a) < Puesto(b))

\* C10 (amended): of two entities with equal totals, the one whose name
\* sorts first ranks first, and is the one kept when the tie straddles the
\* 10th place.
C10_TiesByName ==
    (Aceptado /\ {"nombre", "venta_total"} \subseteq datos.cols) =>
        \A a, b \in Entidades :
            (TotalDe(a) = TotalDe(b) /\ MenorStr(a.s, b.s) /\ EnTop(b)) =>
                (EnTop(a) /\ Puesto(a) < Puesto(b))

\* a tie across the 10th place, kept against the order of first encounter
C10_Witness ==
    /\ Aceptado
    /\ {"nombre", "venta_total"} \subseteq datos.cols
    /\ Len(resumen["top_productos"]) = 10
    /\ \E a, b \in Entidades :
          /\ TotalDe(a) = TotalDe(b)
          /\ EnTop(a) /\ Puesto(a) = 10
          /\ ~EnTop(b)
          /\ PrimeraFila(b) < PrimeraFila(a)

----------------------------------------------------------------------------
(* The run of SistemaVentasMain: cargar_datos_sheets, then the steps of      *)
(* ejecutar_analisis_estadistico                                            *)

\* SheetsService.procesar_datos: _procesar_fechas (to_datetime, mes_venta)
\* and _procesar_numeros (to_numeric); the derived columns it adds (margen,
\* urgencia_inventario, ...) are read by no analysis and are left out
procesar_datos(d) ==
    LET conFecha == "venta_timestamp" \in d.cols
    IN [d EXCEPT
          !.cols = IF conFecha THEN @ \cup {"mes_venta"} ELSE @,
          !.dt_venta = IF "venta_total" \in d.cols THEN "float64" ELSE @,
          !.dt_ts = IF conFecha THEN "datetime64" ELSE @,
          !.filas = [i \in 1..Len(d.filas) |->
              [d.filas[i] EXCEPT
                 !.venta_timestamp = IF conFecha THEN to_datetime(@) ELSE @,
                 !.mes_venta = IF conFecha
                               THEN to_period_M(to_datetime(d.filas[i].venta_timestamp))
                               ELSE @,
                 !.venta_total = IF "venta_total" \in d.cols THEN to_numeric(@) ELSE @,
                 !.diasParaCaducar =
                     IF "diasParaCaducar" \in d.cols THEN to_numeric(@) ELSE @]]]

\* calcular_metricas_kpi raises (ZeroDivisionError, wrapped) when the
\* cliente_id column holds no value: len(datos) / nunique()
KpiFalla(d) ==
    /\ "cliente_id" \in d.cols
    /\ \A i \in 1..Len(d.filas) : isnull(d.filas[i].cliente_id)

\* analizar_tendencias raises when a required column is missing, when the
\* .dt accessor fails, and when no period is left (idxmax of an empty series)
TendenciasFalla(d) ==
    \/ "venta_timestamp" \notin d.cols
    \/ "venta_total" \notin d.cols
    \/ d.dt_ts # "datetime64"
    \/ \A i \in 1..Len(d.filas) : isnull(d.filas[i].venta_timestamp)

\* what worksheet.get_all_records() can hand over: numbers and strings, an
\* empty cell being the empty string
HojasCrudas ==
    {DataFrame({}, "-", "-", <<>>)}
    \cup Frames({"nombre", "venta_total"}, "object", "-", MaxFilas,
                {Str(<<"A">>), Str(<<"B">>), Str(<<>>)}, {Ausente},
                {Num(-1), Num(2), Str(<<"x">>), Str(<<>>)},
                {Ausente}, {Ausente}, {Ausente}, {Ausente})
    \cup Frames({"venta_total", "venta_timestamp", "cliente_id"}, "object", "object",
                MaxFilas,
                {Ausente}, {Ausente}, {Num(1), Num(3)},
                {Str(<<"2024-01-10">>), Str(<<"2024-03-10">>), Str(<<>>)},
                {Str(<<"c1">>)}, {Ausente}, {Ausente})
    \cup Frames({"cliente_id"}, "-", "-", MaxFilas,
                {Ausente}, {Ausente}, {Ausente}, {Ausente},
                {Str(<<"c1">>), Str(<<>>)}, {Ausente}, {Ausente})
    \cup Frames({"categoria", "venta_timestamp"}, "-", "object", MaxFilas,
                {Ausente}, {Str(<<"X">>)}, {Ausente},
                {Str(<<"2024-01-25">>), Str(<<"x">>)},
                {Ausente}, {Ausente}, {Ausente})
    \cup Frames({"nombre", "diasParaCaducar"}, "-", "-", MaxFilas,
                {Str(<<"A">>)}, {Ausente}, {Ausente}, {Ausente}, {Ausente},
                {Num(3), Str(<<"x">>)}, {Ausente})

Init == InitServicio /\ datos = DfNone

\* cargar_datos_sheets: cargar_datos, then procesar_datos unless the sheet
\* is empty (the method then returns False and the run stops)
CargarDatosSheets ==
    /\ UNCHANGED archivos
    /\ pc = "inicio"
    /\ \E raw \in HojasCrudas :
          IF empty(raw)
          THEN datos' = raw /\ pc' = "sin_datos"
          ELSE datos' = procesar_datos(raw) /\ pc' = "cargado"
    /\ UNCHANGED <<resumen, df_actual, ret, error, llamadas>>

\* ejecutar_analisis_estadistico up to generar_resumen(df). An exception
\* that is not a DataAnalysisError leaves through "except Exception" and is
\* raised again as DataAnalysisError.
EjecutarResumen ==
    /\ UNCHANGED archivos
    /\ pc = "cargado"
    /\ IF datos.es_none \/ empty(datos)
       THEN /\ error' = "DataAnalysisError"
            /\ pc' = "fallo"
            /\ UNCHANGED <<resumen, df_actual, llamadas>>
       ELSE LET r == generar_resumen(datos, resumen, df_actual)
            IN /\ resumen' = r.resumen
               /\ df_actual' = r.df_actual
               /\ llamadas' = llamadas \o r.llamadas
               /\ error' = IF r.error = "ninguno" THEN "ninguno" ELSE "DataAnalysisError"
               /\ pc' = IF r.error = "ninguno" THEN "resumido" ELSE "fallo"
    /\ ret' = [RetNada EXCEPT !.op = "generar_resumen"]
    /\ UNCHANGED datos

\* ... then calcular_metricas_kpi(df)
EjecutarKpis ==
    /\ UNCHANGED archivos
    /\ pc = "resumido"
    /\ llamadas' = Append(llamadas, "calcular_metricas_kpi")
    /\ error' = IF KpiFalla(datos) THEN "DataAnalysisError" ELSE "ninguno"
    /\ pc' = IF KpiFalla(datos) THEN "fallo" ELSE "kpis"
    /\ ret' = [RetNada EXCEPT !.op = "calcular_metricas_kpi"]
    /\ UNCHANGED <<datos, resumen, df_actual>>

\* ... then analizar_tendencias(df, "mensual") and the combined result
EjecutarTendencias ==
    /\ UNCHANGED archivos
    /\ pc = "kpis"
    /\ llamadas' = Append(llamadas, "analizar_tendencias")
    /\ error' = IF TendenciasFalla(datos) THEN "DataAnalysisError" ELSE "ninguno"
    /\ pc' = IF TendenciasFalla(datos) THEN "fallo" ELSE "hecho"
    /\ ret' = [RetNada EXCEPT !.op = IF TendenciasFalla(datos)
                                      THEN "analizar_tendencias"
                                      ELSE "ejecutar_analisis_estadistico"]
    /\ UNCHANGED <<datos, resumen, df_actual>>

Next == CargarDatosSheets \/ EjecutarResumen \/ EjecutarKpis \/ EjecutarTendencias

Spec == Init /\ [][Next]_vars

Analiticos == Rango(Secciones) \cup {"calcular_metricas_kpi", "analizar_tendencias"}

\* C1 as stated: in a run the dataset is validated and then cleaned with
\* limpiar_datos before any analytical component is computed on it.
C1_CleanedBeforeAnalysis ==
    \A i \in 1..Len(llamadas) :
        llamadas[i] \in Analiticos =>
            \E j \in 1..(i - 1) :
                /\ llamadas[j] = "limpiar_datos"
                /\ \E k \in 1..(j - 1) : llamadas[k] = "validar_datos"

\* C3 as stated: when the loaded, non-empty dataset fails validation, the
\* error that reaches the caller of ejecutar_analisis_estadistico is a
\* DataValidationError.
C3_ValidationErrorSurfaces ==
    (pc = "fallo" /\ ~empty(datos) /\ ~validar_datos(datos).es_valido) =>
        error = "DataValidationError"

----------------------------------------------------------------------------
(* Floating-point values, kept exact: a quotient of integers in lowest      *)
(* terms, or NaN. Rounding is not modelled.                                  *)

Abs(x) == IF x < 0 THEN 0 - x ELSE x

RECURSIVE MCD(_, _)
MCD(a, b) == IF b = 0 THEN a ELSE MCD(b, a % b)

\* the float n/d (d # 0)
Frac(n, d) ==
    LET g == MCD(Abs(n), Abs(d))
        sg == IF d < 0 THEN -1 ELSE 1
    IN [num |-> (sg * n) \div g, den |-> (sg * d) \div g]

FNaN == [num |-> 0, den |-> 0]

EsNaN(a) == a.den = 0

\* float(n) of an integer
Ent(n) == [num |-> n, den |-> 1]

\* sums and products reduce before they multiply, to keep the integers small
FSuma(a, b) ==
    IF EsNaN(a) \/ EsNaN(b) THEN FNaN
    ELSE LET m == (a.den \div MCD(a.den, b.den)) * b.den
         IN Frac(a.num * (m \div a.den) + b.num * (m \div b.den), m)

FResta(a, b) == FSuma(a, [b EXCEPT !.num = 0 - @])

FProd(a, b) ==
    IF EsNaN(a) \/ EsNaN(b) THEN FNaN
    ELSE LET g1 == MCD(Abs(a.num), b.den)
             g2 == MCD(Abs(b.num), a.den)
         IN Frac((a.num \div g1) * (b.num \div g2), (a.den \div g2) * (b.den \div g1))

\* numpy division: 0/0 and every operation on NaN give NaN (a warning, no
\* exception); x/0 with x # 0 is not reached by the code modelled here
FDiv(a, b) ==
    IF EsNaN(a) \/ EsNaN(b) \/ b.num = 0 THEN FNaN
    ELSE FProd(a, Frac(b.den, b.num))

\* a < b on floats: false when either is NaN. The integer parts are compared
\* first and the fractional parts only when they are equal, which keeps the
\* products small.
FMenor(a, b) ==
    IF EsNaN(a) \/ EsNaN(b) THEN FALSE
    ELSE LET qa == a.num \div a.den
             qb == b.num \div b.den
         IN \/ qa < qb
            \/ qa = qb /\ (a.num % a.den) * b.den < (b.num % b.den) * a.den

\* Python max(a, b) and min(a, b): the first argument unless the second is
\* strictly greater (smaller); NaN compares false
PyMax(a, b) == IF FMenor(a, b) THEN b ELSE a

PyMin(a, b) == IF FMenor(b, a) THEN b ELSE a

----------------------------------------------------------------------------
(* DataAnalysisService.calcular_metricas_kpi *)

\* the non-null amounts of the rows, in row order
Montos(fs) ==
    LET con == SelectSeq(fs, LAMBDA f : f.venta_total.t = "num")
    IN [i \in 1..Len(con) |-> con[i].venta_total.n]

\* the sum of a sequence of integers, by halves
RECURSIVE SumaSeq(_)
SumaSeq(sq) ==
    IF Len(sq) = 0 THEN 0
    ELSE IF Len(sq) = 1 THEN sq[1]
    ELSE LET m == Len(sq) \div 2
         IN SumaSeq(SubSeq(sq, 1, m)) + SumaSeq(SubSeq(sq, m + 1, Len(sq)))

\* Series.mean(): NaN when no value is left
mean(vals) == IF vals = <<>> THEN FNaN ELSE Frac(SumaSeq(vals), Len(vals))

RECURSIVE Insertar(_, _)
Insertar(x, sq) ==
    IF sq = <<>> THEN <<x>>
    ELSE IF x <= Head(sq) THEN <<x>> \o sq
    ELSE <<Head(sq)>> \o Insertar(x, Tail(sq))

RECURSIVE Ordenar(_)
Ordenar(sq) == IF sq = <<>> THEN <<>> ELSE Insertar(Head(sq), Ordenar(Tail(sq)))

\* Series.median()
median(vals) ==
    LET o == Ordenar(vals)
        n == Len(o)
    IN IF n = 0 THEN FNaN
       ELSE IF n % 2 = 1 THEN Ent(o[(n + 1) \div 2])
       ELSE Frac(o[n \div 2] + o[n \div 2 + 1], 2)

\* Series.nunique(): the number of distinct non-null values
nunique(d, col) == Cardinality(Claves(d, col))

\* the keys of the returned dict
ClavesKpi(d) ==
    {"total_transacciones", "transacciones_exitosas"}
    \cup (IF "venta_total" \in d.cols
          THEN {"total_ventas", "ticket_promedio", "mediana_venta", "tasa_conversion"}
          ELSE {})
    \cup (IF "nombre" \in d.cols THEN {"productos_unicos"} ELSE {})
    \cup (IF "cliente_id" \in d.cols
          THEN {"clientes_unicos", "transacciones_por_cliente"}
          ELSE {})

\* calcular_metricas_kpi(d), for a dataset whose amount column is numeric:
\* len(datos) / nunique() is a division of Python ints, which raises
\* ZeroDivisionError on 0; the method turns it into DataAnalysisError
calcular_metricas_kpi(d) ==
    LET n == Len(d.filas)
        exitosas == IF "venta_total" \in d.cols
                    THEN Len(SelectSeq(d.filas,
                            LAMBDA f : f.venta_total.t = "num" /\ f.venta_total.n > 0))
                    ELSE 0
    IN IF "cliente_id" \in d.cols /\ nunique(d, "cliente_id") = 0
       THEN [error |-> "DataAnalysisError", valor |-> <<>>]
       ELSE [error |-> "ninguno",
             valor |-> [k \in ClavesKpi(d) |->
                CASE k = "total_ventas" -> Ent(SumaVentas(d.filas))
                  [] k = "ticket_promedio" -> mean(Montos(d.filas))
                  [] k = "mediana_venta" -> median(Montos(d.filas))
                  [] k = "total_transacciones" -> Ent(n)
                  [] k = "transacciones_exitosas" -> Ent(exitosas)
                  [] k = "productos_unicos" -> Ent(nunique(d, "nombre"))
                  [] k = "clientes_unicos" -> Ent(nunique(d, "cliente_id"))
                  [] k = "transacciones_por_cliente" -> Frac(n, nunique(d, "cliente_id"))
                  [] OTHER -> IF n > 0 THEN Frac(exitosas * 100, n) ELSE Ent(0)]]

----------------------------------------------------------------------------
(* DataAnalysisService.analizar_tendencias *)

\* the hard precondition of analizar_tendencias and generar_predicciones
FaltanColumnasTodas(d) == "venta_timestamp" \notin d.cols /\ "venta_total" \notin d.cols

FaltanColumnas(d) == "venta_timestamp" \notin d.cols \/ "venta_total" \notin d.cols

\* ISO week of the instants of FechasTexto (dt.to_period('W'))
SemanaDeFecha == <<2, 4, 6, 10, 15, 19>>

\* the group key of one timestamp: dt.date, dt.to_period('W') or
\* dt.to_period('M'); NaT has no key
ClavePeriodo(c, periodo) ==
    IF c.t # "dt" THEN NaT
    ELSE CASE periodo = "diario" -> c
           [] periodo = "semanal" -> Periodo(SemanaDeFecha[c.n])
           [] OTHER -> Periodo(MesDeFecha[c.n])

\* datos.groupby(<key of venta_timestamp>)['venta_total'].sum(): the totals
\* per period, in chronological order
agrupacion(d, periodo) ==
    groupby_sum([d EXCEPT !.filas =
                    [i \in 1..Len(d.filas) |->
                       [d.filas[i] EXCEPT
                          !.mes_venta = ClavePeriodo(d.filas[i].venta_timestamp, periodo)]]],
                "mes_venta")

\* Series.idxmax() / idxmin(): the position of the first extreme value
idxmax(serie) ==
    CHOOSE i \in 1..Len(serie) :
        /\ \A j \in 1..Len(serie) : serie[j].valor <= serie[i].valor
        /\ \A j \in 1..(i - 1) : serie[j].valor < serie[i].valor

idxmin(serie) ==
    CHOOSE i \in 1..Len(serie) :
        /\ \A j \in 1..Len(serie) : serie[j].valor >= serie[i].valor
        /\ \A j \in 1..(i - 1) : serie[j].valor > serie[i].valor

\* the growth between the first and the last period, in percent
crecimiento(valores) ==
    IF Len(valores) < 2 \/ valores[1] = 0 THEN Ent(0)
    ELSE Frac((valores[Len(valores)] - valores[1]) * 100, valores[1])

\* the labels with growth of exactly 5 or -5 percent counted as a change
EtiquetaTendenciaInclusiva(c) ==
    IF ~FMenor(c, Ent(5)) /\ ~EsNaN(c) THEN "creciente"
    ELSE IF ~FMenor(Ent(-5), c) /\ ~EsNaN(c) THEN "decreciente"
    ELSE "estable"

\* 'creciente' if crecimiento > 5 else 'decreciente' if crecimiento < -5
\* else 'estable'
EtiquetaTendencia(c) ==
    IF FMenor(Ent(5), c) THEN "creciente"
    ELSE IF FMenor(c, Ent(-5)) THEN "decreciente"
    ELSE "estable"

SinResultado == [error |-> "DataAnalysisError", valor |-> <<>>]

\* analizar_tendencias(d, periodo). It raises DataAnalysisError when a
\* required column is missing, when venta_timestamp is not datetime-typed
\* (the .dt accessor raises AttributeError) and when no period is left
\* (idxmax of an empty series raises ValueError).
analizar_tendencias(d, periodo) ==
    IF FaltanColumnas(d) \/ d.dt_ts # "datetime64" THEN SinResultado
    ELSE LET g == agrupacion(d, periodo)
             valores == [i \in 1..Len(g) |-> g[i].valor]
         IN IF g = <<>> THEN SinResultado
            ELSE [error |-> "ninguno",
                  valor |-> [periodo |-> periodo,
                             tendencia |-> EtiquetaTendencia(crecimiento(valores)),
                             crecimiento_porcentual |-> crecimiento(valores),
                             valores_por_periodo |-> g,
                             periodo_mejor |-> g[idxmax(g)].clave,
                             periodo_peor |-> g[idxmin(g)].clave,
                             promedio_periodo |-> mean(valores),
                             total_periodos |-> Len(g)]]

----------------------------------------------------------------------------
(* DataAnalysisService.identificar_anomalias *)

\* the population variance (ddof = 0) in the place of the sample variance
var_poblacional(vals) ==
    IF Len(vals) < 2 THEN FNaN
    ELSE LET m == mean(vals)
             desv == [i \in 1..Len(vals) |-> FResta(Ent(vals[i]), m)]
             cuad == [i \in 1..Len(vals) |-> FProd(desv[i], desv[i]).num]
         IN Frac(SumaSeq(cuad), FProd(desv[1], desv[1]).den * Len(vals))

\* Series.std(): the sample standard deviation (ddof = 1), kept as its
\* square; NaN with fewer than two values
var_muestral(vals) ==
    IF Len(vals) < 2 THEN FNaN
    ELSE LET m == mean(vals)
             desv == [i \in 1..Len(vals) |-> FResta(Ent(vals[i]), m)]
             cuad == [i \in 1..Len(vals) |-> FProd(desv[i], desv[i]).num]
         IN Frac(SumaSeq(cuad), FProd(desv[1], desv[1]).den * (Len(vals) - 1))

\* the comparison with the limit made non-strict: a >= k * sqrt(v)
SuperaDesvNoEstricto(a, k, v) ==
    /\ ~FMenor(a, Ent(0)) /\ ~EsNaN(a)
    /\ ~FMenor(FProd(a, a), FProd(FProd(k, k), v)) /\ ~EsNaN(v)

\* the comparison with the mean in the place of the limit: a > 0
SuperaDesvSinUmbral(a, k, v) == FMenor(Ent(0), a) /\ ~EsNaN(v)

\* a > k * sqrt(v) for k >= 0 and v >= 0, without the root; false on NaN
SuperaDesv(a, k, v) ==
    /\ FMenor(Ent(0), a)
    /\ FMenor(FProd(FProd(k, k), v), FProd(a, a))

\* the record appended for one row. desviacion, (row - media) / desv_std, is
\* kept as the distance to the mean and the variance it is divided by the
\* root of.
Anomalia(tipo, f, d, media, k, v) ==
    [tipo |-> tipo,
     valor |-> f.venta_total.n,
     limite |-> [media |-> media, umbral |-> k, varianza |-> v,
                 lado |-> IF tipo = "venta_alta" THEN 1 ELSE -1],
     desviacion |-> [distancia |-> FResta(Ent(f.venta_total.n), media),
                     varianza |-> v],
     producto |-> IF "nombre" \in d.cols THEN f.nombre ELSE Str(<<"N/A">>),
     fecha |-> IF "venta_timestamp" \in d.cols THEN f.venta_timestamp ELSE Str(<<"N/A">>)]

\* the test of line 385 letting amounts of 0 through
VentaValidaONula(f) == f.venta_total.n >= 0

\* "if row['venta_total'] > 0": amounts of 0 (and below) are left out
VentaValida(f) == f.venta_total.n > 0

\* identificar_anomalias(d, umbral) for umbral >= 0: the rows above
\* media + umbral * std, then the rows below media - umbral * std whose
\* amount is > 0. The comparisons against the limits (irrational in general)
\* are made on the squares.
identificar_anomalias(d, k) ==
    IF "venta_total" \notin d.cols THEN <<>>
    ELSE LET vals == Montos(d.filas)
             media == mean(vals)
             v == var_muestral(vals)
             EsAlta(f) == f.venta_total.t = "num"
                          /\ SuperaDesv(FResta(Ent(f.venta_total.n), media), k, v)
             EsBaja(f) == f.venta_total.t = "num"
                          /\ SuperaDesv(FResta(media, Ent(f.venta_total.n)), k, v)
                          /\ VentaValida(f)
             sup == SelectSeq(d.filas, EsAlta)
             inf == SelectSeq(d.filas, EsBaja)
         IN [i \in 1..Len(sup) |-> Anomalia("venta_alta", sup[i], d, media, k, v)]
            \o [i \in 1..Len(inf) |-> Anomalia("venta_baja", inf[i], d, media, k, v)]

----------------------------------------------------------------------------
(* DataAnalysisService.generar_predicciones *)

MinPeriodos == 3

\* n * sum(a[i] * b[i]) - sum(a) * sum(b): n^2 times the covariance
SumaCruzada(a, b) ==
    Len(a) * SumaSeq([i \in 1..Len(a) |-> a[i] * b[i]]) - SumaSeq(a) * SumaSeq(b)

RECURSIVE FSumaSeq(_)
FSumaSeq(sq) == IF sq = <<>> THEN Ent(0) ELSE FSuma(Head(sq), FSumaSeq(Tail(sq)))

\* np.corrcoef(x, valores)[0, 1] * (np.std(valores) / np.std(x)): the
\* correlation is cov / sqrt(var_x * var_y) and the ratio sqrt(var_y / var_x),
\* so the product is cov / var_x; when every value is the same var_y is 0 and
\* the correlation is 0/0 = NaN (numpy warns, it does not raise)
pendiente(x, valores) ==
    IF SumaCruzada(valores, valores) = 0 THEN FNaN
    ELSE Frac(SumaCruzada(x, valores), SumaCruzada(x, x))

\* the test for too short a history accepting two periods
DatosInsuficientesDos(g) == Len(g) < 2

\* "if len(ventas_mensuales) < 3"
DatosInsuficientes(g) == Len(g) < MinPeriodos

\* the projection without the clamp to 0
PrediccionSinTope(a, b, t) == FSuma(a, FProd(b, Ent(t)))

\* max(0, intercepto + pendiente * t)
Prediccion(a, b, t) == PyMax(Ent(0), FSuma(a, FProd(b, Ent(t))))

\* generar_predicciones(d, h): DataAnalysisError when a required column is
\* missing or venta_timestamp is not datetime-typed; the insufficient-data
\* result with fewer than 3 monthly totals; otherwise the linear projection
generar_predicciones(d, h) ==
    IF FaltanColumnas(d) \/ d.dt_ts # "datetime64" THEN SinResultado
    ELSE
      LET g == agrupacion(d, "mensual")
          n == Len(g)
      IN IF DatosInsuficientes(g)
         THEN [error |-> "ninguno",
               valor |-> [predicciones |-> <<>>, confianza |-> Ent(0),
                          metodo |-> "insuficientes_datos"]]
         ELSE
           LET valores == [i \in 1..n |-> g[i].valor]
               x == [i \in 1..n |-> i - 1]
               b == pendiente(x, valores)
               a == FResta(mean(valores), FProd(b, mean(x)))
               residuos == [i \in 1..n |->
                              FResta(Ent(valores[i]), FSuma(a, FProd(b, Ent(x[i]))))]
               sc_res == FSumaSeq([i \in 1..n |-> FProd(residuos[i], residuos[i])])
               sc_tot == FSumaSeq([i \in 1..n |->
                            LET e == FResta(Ent(valores[i]), mean(valores))
                            IN FProd(e, e)])
               r_cuadrado == FResta(Ent(1), FDiv(sc_res, sc_tot))
               media_res == FDiv(FSumaSeq(residuos), Ent(n))
           IN [error |-> "ninguno",
               valor |->
                 [predicciones |-> [i \in 1..h |-> Prediccion(a, b, n + i - 1)],
                  confianza |-> PyMax(Ent(0), PyMin(Ent(100), FProd(r_cuadrado, Ent(100)))),
                  error_estandar_cuadrado |->
                      FResta(FDiv(sc_res, Ent(n)), FProd(media_res, media_res)),
                  tendencia |-> IF FMenor(Ent(0), b) THEN "creciente"
                                ELSE IF FMenor(b, Ent(0)) THEN "decreciente"
                                ELSE "estable",
                  metodo |-> "regresion_lineal_simple",
                  periodos_historicos |-> n,
                  periodos_predichos |-> h]]

----------------------------------------------------------------------------
(* The analytical operations called on bounded datasets. The datasets are   *)
(* typed as SheetsService.procesar_datos leaves them: a numeric amount       *)
(* column and a datetime timestamp column.                                   *)

MaxRegistros == 6
MaxMeses == 4
MaxHorizonte == 3

DatasetsKpi ==
    UNION {Frames(c, "float64", "-", MaxFilas,
                  {Str(<<"A">>)}, {Ausente}, {Num(-2), Num(0), Num(2), NaN}, {Ausente},
                  {Str(<<"c1">>), NaN}, {Ausente}, {Ausente})
           : c \in SUBSET {"nombre", "venta_total", "cliente_id"}}

DatasetsTemporales ==
    Frames({"venta_total", "venta_timestamp"}, "float64", "datetime64", MaxFilas,
           {Ausente}, {Ausente}, {Num(0), Num(100), Num(150)},
           {Fecha(1), Fecha(2), Fecha(4), NaT}, {Ausente}, {Ausente}, {Ausente})
    \cup Frames({"venta_timestamp"}, "-", "datetime64", MaxFilas,
                {Ausente}, {Ausente}, {Ausente}, {Fecha(1), NaT},
                {Ausente}, {Ausente}, {Ausente})

\* two records whose amounts differ by about 5 percent
DatasetsCrecimiento ==
    {DataFrame({"venta_total", "venta_timestamp"}, "float64", "datetime64",
               <<Fila(1, Ausente, Ausente, Num(v[1]), Fecha(t[1]), Ausente, Ausente,
                      Ausente),
                 Fila(2, Ausente, Ausente, Num(v[2]), Fecha(t[2]), Ausente, Ausente,
                      Ausente)>>) :
        v \in [1..2 -> {95, 100, 105}], t \in [1..2 -> {1, 2, 4}]}

\* MaxRegistros records of one entity
DatasetsAnomalias ==
    {DataFrame({"nombre", "venta_total"}, "float64", "-",
               [i \in 1..MaxRegistros |->
                  Fila(i, Str(<<"A">>), Ausente, Num(v[i]), Ausente, Ausente, Ausente,
                       Ausente)]) :
        v \in [1..MaxRegistros -> {0, 1, 10}]}

\* one record in each of 3..MaxMeses consecutive months
DatasetsMensuales ==
    UNION {{DataFrame({"venta_total", "venta_timestamp"}, "float64", "datetime64",
                      [i \in 1..k |->
                         Fila(i, Ausente, Ausente, Num(v[i]), Fecha(i + 1), Ausente,
                              Ausente, Ausente)]) :
               v \in [1..k -> {100, 150, 200}]} : k \in MinPeriodos..MaxMeses}

DatasetsAnalisis ==
    DatasetsKpi \cup DatasetsTemporales \cup DatasetsCrecimiento
    \cup DatasetsAnomalias \cup DatasetsMensuales

Periodos == {"diario", "semanal", "mensual"}

Umbrales == {Ent(0), Ent(1), Frac(3, 2), Ent(2)}

InitAnalisis == InitServicio /\ datos \in DatasetsAnalisis

\* what the caller holds after a call: the result, or nothing when it raised
Devuelto(op, arg, r) ==
    IF r.error = "ninguno"
    THEN [RetNada EXCEPT !.op = op, !.arg = arg, !.valor = r.valor]
    ELSE [RetNada EXCEPT !.arg = arg]

CalcularKpis ==
    /\ pc = "inicio"
    /\ error' = calcular_metricas_kpi(datos).error
    /\ ret' = Devuelto("calcular_metricas_kpi", <<>>, calcular_metricas_kpi(datos))
    /\ llamadas' = Append(llamadas, "calcular_metricas_kpi")
    /\ pc' = "kpis_calculados"
    /\ UNCHANGED <<datos, resumen, df_actual, archivos>>

AnalizarTendencias ==
    /\ pc = "inicio"
    /\ \E periodo \in Periodos :
          /\ error' = analizar_tendencias(datos, periodo).error
          /\ ret' = Devuelto("analizar_tendencias", periodo,
                             analizar_tendencias(datos, periodo))
    /\ llamadas' = Append(llamadas, "analizar_tendencias")
    /\ pc' = "tendencias_analizadas"
    /\ UNCHANGED <<datos, resumen, df_actual, archivos>>

\* identificar_anomalias has nothing to raise on a numeric amount column
IdentificarAnomalias ==
    /\ pc = "inicio"
    /\ \E umbral \in Umbrales :
          ret' = [RetNada EXCEPT !.op = "identificar_anomalias", !.arg = umbral,
                                 !.valor = identificar_anomalias(datos, umbral)]
    /\ error' = "ninguno"
    /\ llamadas' = Append(llamadas, "identificar_anomalias")
    /\ pc' = "anomalias_identificadas"
    /\ UNCHANGED <<datos, resumen, df_actual, archivos>>

GenerarPredicciones ==
    /\ pc = "inicio"
    /\ \E periodos_futuros \in 0..MaxHorizonte :
          /\ error' = generar_predicciones(datos, periodos_futuros).error
          /\ ret' = Devuelto("generar_predicciones", periodos_futuros,
                             generar_predicciones(datos, periodos_futuros))
    /\ llamadas' = Append(llamadas, "generar_predicciones")
    /\ pc' = "predicciones_generadas"
    /\ UNCHANGED <<datos, resumen, df_actual, archivos>>

NextAnalisis ==
    CalcularKpis \/ AnalizarTendencias \/ IdentificarAnomalias \/ GenerarPredicciones

SpecAnalisis == InitAnalisis /\ [][NextAnalisis]_vars

----------------------------------------------------------------------------
(* Properties of calcular_metricas_kpi and analizar_tendencias *)

\* the customers of datos
ClientesDistintos ==
    {datos.filas[i].cliente_id :
        i \in {j \in 1..Len(datos.filas) : ~isnull(datos.filas[j].cliente_id)}}

\* C11 as stated: calcular_metricas_kpi never raises and returns no NaN
\* for a zero denominator: transacciones_por_cliente is 0.0 when there is no
\* unique customer (customer column all null, or no rows) and
\* tasa_conversion is 0.0 when there are no rows.
C11_KpiGuardsZeroDenominator ==
    pc = "kpis_calculados" =>
        /\ error = "ninguno"
        /\ ("cliente_id" \in datos.cols /\ ClientesDistintos = {}) =>
              ret.valor["transacciones_por_cliente"] = Ent(0)
        /\ ("venta_total" \in datos.cols /\ Len(datos.filas) = 0) =>
              ret.valor["tasa_conversion"] = Ent(0)
        /\ \A k \in {"transacciones_por_cliente", "tasa_conversion"} \cap DOMAIN ret.valor :
              ~EsNaN(ret.valor[k])

\* C12 as stated: without a customer_id column, calcular_metricas_kpi
\* returns without raising and the KPI set holds clientes_unicos = 0.
C12_NoCustomerColumnGivesZero ==
    (pc = "kpis_calculados" /\ "cliente_id" \notin datos.cols) =>
        /\ error = "ninguno"
        /\ "clientes_unicos" \in DOMAIN ret.valor
        /\ ret.valor["clientes_unicos"] = Ent(0)

\* the periods the timestamps of datos fall in
PeriodosDe(periodo) ==
    {ClavePeriodo(datos.filas[i].venta_timestamp, periodo) :
        i \in {j \in 1..Len(datos.filas) : datos.filas[j].venta_timestamp.t = "dt"}}

ConColumnasDeTendencia == {"venta_timestamp", "venta_total"} \subseteq datos.cols

\* C13 as stated: with the timestamp and amount columns and fewer than 2
\* periods (one period, or none because there are no rows),
\* analizar_tendencias returns tendencia 'estable' with growth 0.0 and does
\* not raise.
C13_FewPeriodsStable ==
    (/\ pc = "tendencias_analizadas"
     /\ ConColumnasDeTendencia
     /\ Cardinality(PeriodosDe(ret.arg)) < 2) =>
        /\ error = "ninguno"
        /\ ret.valor.tendencia = "estable"
        /\ ret.valor.crecimiento_porcentual = Ent(0)

----------------------------------------------------------------------------
(* Properties of identificar_anomalias *)

\* the rows of datos with an amount, their number, sum and sum of squares
FilasConMonto == SelectSeq(datos.filas, LAMBDA f : f.venta_total.t = "num")

NMontos == Len(FilasConMonto)

SMontos == SumaSeq([i \in 1..NMontos |-> FilasConMonto[i].venta_total.n])

QMontos == SumaSeq([i \in 1..NMontos |-> FilasConMonto[i].venta_total.n
                                          * FilasConMonto[i].venta_total.n])

\* e > k * sigma, for e = NMontos * (distance of the amount from mu), with
\* sigma^2 = (n * Q - S^2) / (n * (n - 1)) and k = kn / kd >= 0
FueraDeBanda(e, k) ==
    /\ NMontos >= 2
    /\ e > 0
    /\ e * e * (NMontos - 1) * k.den * k.den
          > k.num * k.num * NMontos * (NMontos * QMontos - SMontos * SMontos)

DebeSerAlta(f, k) == FueraDeBanda(NMontos * f.venta_total.n - SMontos, k)

DebeSerBaja(f, k) ==
    FueraDeBanda(SMontos - NMontos * f.venta_total.n, k) /\ f.venta_total.n > 0

ValoresDe(fs) == [i \in 1..Len(fs) |-> fs[i].venta_total.n]

Reportadas(tipo) == SelectSeq(ret.valor, LAMBDA a : a.tipo = tipo)

\* C14: identificar_anomalias with threshold k reports a record as
\* venta_alta iff amount > mu + k*sigma and as venta_baja iff
\* amount < mu - k*sigma and amount > 0 (mu the mean, sigma the sample
\* standard deviation of all amounts); an amount of 0 is never reported low.
C14_AnomaliesExact ==
    (pc = "anomalias_identificadas" /\ "venta_total" \in datos.cols /\ NMontos >= 2) =>
        /\ error = "ninguno"
        /\ [i \in 1..Len(Reportadas("venta_alta")) |-> Reportadas("venta_alta")[i].valor]
              = ValoresDe(SelectSeq(FilasConMonto, LAMBDA f : DebeSerAlta(f, ret.arg)))
        /\ [i \in 1..Len(Reportadas("venta_baja")) |-> Reportadas("venta_baja")[i].valor]
              = ValoresDe(SelectSeq(FilasConMonto, LAMBDA f : DebeSerBaja(f, ret.arg)))
        /\ Len(ret.valor) = Len(Reportadas("venta_alta")) + Len(Reportadas("venta_baja"))
        /\ \A i \in 1..Len(ret.valor) :
              ret.valor[i].tipo = "venta_baja" => ret.valor[i].valor # 0

\* a low anomaly is reported and a record of amount 0, below the lower
\* limit as well, is not
C14_Witness ==
    /\ pc = "anomalias_identificadas"
    /\ ret.arg = Ent(1)
    /\ Reportadas("venta_baja") # <<>>
    /\ \E i \in 1..Len(datos.filas) :
          /\ datos.filas[i].venta_total = Num(0)
          /\ FueraDeBanda(SMontos, ret.arg)

----------------------------------------------------------------------------
(* Properties of generar_predicciones *)

\* C15: with the required columns and fewer than 3 monthly buckets,
\* generar_predicciones returns normally the insufficient-data result: method
\* 'insuficientes_datos', no projection, confidence 0.0.
C15_InsufficientData ==
    (/\ pc = "predicciones_generadas"
     /\ ConColumnasDeTendencia
     /\ Cardinality(PeriodosDe("mensual")) < 3) =>
        /\ error = "ninguno"
        /\ ret.op = "generar_predicciones"
        /\ ret.valor.metodo = "insuficientes_datos"
        /\ ret.valor.predicciones = <<>>
        /\ ret.valor.confianza = Ent(0)

C15_Witness ==
    /\ pc = "predicciones_generadas"
    /\ Cardinality(PeriodosDe("mensual")) = 2
    /\ ret.arg = 3
    /\ ret.op = "generar_predicciones"
    /\ ret.valor.metodo = "insuficientes_datos"

\* 0 <= a <= 100 for a float that is not NaN
EnPorcentaje(a) == ~EsNaN(a) /\ a.num >= 0 /\ a.num <= 100 * a.den

\* C16: whenever generar_predicciones returns a result, confianza lies in
\* [0, 100] and every projected value is >= 0.
C16_ForecastRanges ==
    (pc = "predicciones_generadas" /\ error = "ninguno") =>
        /\ EnPorcentaje(ret.valor.confianza)
        /\ \A i \in 1..Len(ret.valor.predicciones) :
              /\ ~EsNaN(ret.valor.predicciones[i])
              /\ ret.valor.predicciones[i].num >= 0

\* a falling series whose line goes below 0 within the horizon
C16_Witness ==
    /\ pc = "predicciones_generadas"
    /\ error = "ninguno"
    /\ ret.valor.metodo = "regresion_lineal_simple"
    /\ ret.valor.tendencia = "decreciente"
    /\ Len(ret.valor.predicciones) = 3
    /\ ret.valor.predicciones[1].num > 0
    /\ ret.valor.predicciones[3] = Ent(0)
    /\ FMenor(ret.valor.confianza, Ent(100))

\* C17: analizar_tendencias and generar_predicciones each fail with a
\* DataAnalysisError, and return no result, whenever the dataset lacks the
\* timestamp column or the amount column.
C17_MissingColumnsFail ==
    (pc \in {"tendencias_analizadas", "predicciones_generadas"}
     /\ ~ConColumnasDeTendencia) =>
        /\ error = "DataAnalysisError"
        /\ ret.op = "ninguna"
        /\ ret.valor = <<>>

C17_Witness ==
    /\ pc = "predicciones_generadas"
    /\ "venta_timestamp" \in datos.cols
    /\ "venta_total" \notin datos.cols
    /\ \E i \in 1..Len(datos.filas) : datos.filas[i].venta_timestamp.t = "dt"
    /\ error = "DataAnalysisError"
    /\ ret.op = "ninguna"

\* the monthly totals of datos and their least-squares line over 0..n-1:
\* slope Sxy / Sxx, value at t (Sy * Sxx - Sxy * Sx + n * Sxy * t) / (n * Sxx)
TotalesMensuales ==
    LET g == agrupacion(datos, "mensual") IN [i \in 1..Len(g) |-> g[i].valor]

Indices == [i \in 1..Len(TotalesMensuales) |-> i - 1]

RectaEn(t) ==
    LET n == Len(TotalesMensuales)
        Sxx == SumaCruzada(Indices, Indices)
        Sxy == SumaCruzada(Indices, TotalesMensuales)
    IN Frac(SumaSeq(TotalesMensuales) * Sxx - Sxy * SumaSeq(Indices) + n * Sxy * t,
            n * Sxx)

\* C20 as stated: with n >= 3 monthly buckets generar_predicciones returns
\* exactly `horizon` values, the k-th being max(0, a + b*(n+k)) for the
\* least-squares line a + b*x of the totals over 0..n-1; totals
\* [100, 150, 200] give a growing trend and a first projected value of 250.
C20_LinearProjection ==
    (/\ pc = "predicciones_generadas"
     /\ ConColumnasDeTendencia
     /\ Len(TotalesMensuales) >= 3) =>
        /\ error = "ninguno"
        /\ ret.valor.metodo # "insuficientes_datos"
        /\ Len(ret.valor.predicciones) = ret.arg
        /\ \A k \in 0..(ret.arg - 1) :
              ret.valor.predicciones[k + 1]
                 = (IF RectaEn(Len(TotalesMensuales) + k).num > 0
                    THEN RectaEn(Len(TotalesMensuales) + k) ELSE Ent(0))
        /\ TotalesMensuales = <<100, 150, 200>> =>
              /\ ret.valor.tendencia = "creciente"
              /\ ret.arg >= 1 => ret.valor.predicciones[1] = Ent(250)

----------------------------------------------------------------------------
(* The sections of the summary and the columns of the dataset *)

\* C19 as stated: for every dataset that passes validation generar_resumen
\* returns without error whatever columns are present, and the summary has a
\* section exactly when its columns are there: sales metrics iff amount, top
\* entities iff entity_name and amount, category breakdown iff category,
\* inventory alerts iff days_until_expiry, the period string iff timestamp.
C19_SectionsFollowColumns ==
    (pc \in {"analizado", "reanalizado"} /\ validar_datos(datos).es_valido) =>
        /\ error = "ninguno"
        /\ "metricas_ventas" \in DOMAIN resumen <=> "venta_total" \in datos.cols
        /\ "top_productos" \in DOMAIN resumen
              <=> {"nombre", "venta_total"} \subseteq datos.cols
        /\ "por_categoria" \in DOMAIN resumen <=> "categoria" \in datos.cols
        /\ "alertas_inventario" \in DOMAIN resumen <=> "diasParaCaducar" \in datos.cols
        /\ resumen["info_basica"].periodo # <<>> <=> "venta_timestamp" \in datos.cols

----------------------------------------------------------------------------
(* DataAnalysisService.exportar_resultados. A path is a sequence of names;  *)
(* the files on disk are records [ruta, contenido].                         *)

\* DataAnalysisConfig.EXPORT_FORMATS
EXPORT_FORMATS == {"json", "csv", "excel", "pdf"}

\* the formats a caller may ask for
Formatos == EXPORT_FORMATS \cup {"xml", "JSON"}

\* the ruta argument: None, a writable path, a path in a missing directory
Rutas == {<<>>, <<"salida">>, <<"sin_directorio", "salida">>}

\* open(ruta, 'w') and the pandas writers fail on a missing directory
Escribible(r) == r[1] # "sin_directorio"

\* the disk after ruta is (over)written with content c
Escribir(arch, r, c) == {a \in arch : a.ruta # r} \cup {[ruta |-> r, contenido |-> c]}

Exportado(r, arch) == [error |-> "ninguno", valor |-> r, archivos |-> arch]

ExportFalla(arch) == [error |-> "DataExportError", valor |-> <<>>, archivos |-> arch]

\* the outcomes of exportar_resultados(resultados, formato, ruta) on a
\* service holding (df0, res0) with the files arch on disk; serializable
\* says whether json.dump accepts resultados. Writing the Resumen sheet puts
\* the dict-valued sections in cells, which the Excel writer may refuse
\* after the file has been opened: both outcomes are kept.
exportar_resultados(formato, ruta, serializable, df0, res0, arch) ==
    IF formato \notin EXPORT_FORMATS THEN {ExportFalla(arch)}
    ELSE
      LET r == IF ruta = <<>> THEN <<"analisis_resultados", formato>> ELSE ruta
      IN CASE formato = "json" ->
                IF ~Escribible(r) THEN {ExportFalla(arch)}
                ELSE IF serializable THEN {Exportado(r, Escribir(arch, r, "json"))}
                ELSE {ExportFalla(Escribir(arch, r, "json_incompleto"))}
           [] formato = "csv" /\ ~df0.es_none ->
                IF ~Escribible(r) THEN {ExportFalla(arch)}
                ELSE {Exportado(r, Escribir(arch, r, "csv"))}
           [] formato = "excel" /\ ~df0.es_none ->
                IF ~Escribible(r) THEN {ExportFalla(arch)}
                ELSE IF DOMAIN res0 = {} THEN {Exportado(r, Escribir(arch, r, "excel"))}
                ELSE {Exportado(r, Escribir(arch, r, "excel_con_resumen")),
                      ExportFalla(Escribir(arch, r, "excel")),
                      ExportFalla(arch)}
           [] OTHER -> {Exportado(r, arch)}

InitExportar == InitServicio /\ datos = DfNone

\* a dataset is analysed first: generar_resumen(d)
ResumirAntes ==
    /\ pc = "inicio"
    /\ \E d \in DatasetsSegundos :
          LET r == generar_resumen(d, resumen, df_actual)
          IN /\ datos' = d
             /\ error' = r.error
             /\ resumen' = r.resumen
             /\ df_actual' = r.df_actual
             /\ llamadas' = r.llamadas
    /\ ret' = [RetNada EXCEPT !.op = "generar_resumen"]
    /\ pc' = "analizado"
    /\ UNCHANGED archivos

\* a caller invokes exportar_resultados, once and then once more
ExportarResultados ==
    /\ pc \in {"inicio", "analizado", "exportado"}
    /\ \E formato \in Formatos, ruta \in Rutas, serializable \in BOOLEAN :
          \E r \in exportar_resultados(formato, ruta, serializable, df_actual, resumen,
                                       archivos) :
             /\ error' = r.error
             /\ archivos' = r.archivos
             /\ ret' = Devuelto("exportar_resultados",
                                [formato |-> formato, ruta |-> ruta,
                                 serializable |-> serializable], r)
    /\ llamadas' = Append(llamadas, "exportar_resultados")
    /\ pc' = IF pc = "exportado" THEN "reexportado" ELSE "exportado"
    /\ UNCHANGED <<datos, resumen, df_actual>>

NextExportar == ResumirAntes \/ ExportarResultados

SpecExportar == InitExportar /\ [][NextExportar]_vars

\* C18 as stated: exportar_resultados raises DataExportError, and writes
\* nothing, for every requested format outside {json, csv, excel}.
C18_UnsupportedFormatFails ==
    [][(llamadas' # llamadas
        /\ llamadas'[Len(llamadas')] = "exportar_resultados"
        /\ ret'.arg.formato \notin {"json", "csv", "excel"}) =>
          /\ error' = "DataExportError"
          /\ archivos' = archivos]_vars

----------------------------------------------------------------------------
(* Claims C21..C30 *)

\* the monthly totals are n >= 3 equal values c > 0
TotalesConstantes ==
    /\ Len(TotalesMensuales) >= MinPeriodos
    /\ TotalesMensuales[1] > 0
    /\ \A i \in 1..Len(TotalesMensuales) : TotalesMensuales[i] = TotalesMensuales[1]

\* C21 as stated: when the n >= 3 monthly totals are all equal to some
\* c > 0, generar_predicciones fits slope 0 and intercept c: tendencia is
\* 'estable' and every projected value equals c.
C21_ConstantSeriesProjectsItself ==
    (/\ pc = "predicciones_generadas"
     /\ ConColumnasDeTendencia
     /\ TotalesConstantes) =>
        /\ error = "ninguno"
        /\ ret.valor.tendencia = "estable"
        /\ Len(ret.valor.predicciones) = ret.arg
        /\ \A k \in 1..Len(ret.valor.predicciones) :
              ret.valor.predicciones[k] = Ent(TotalesMensuales[1])

----------------------------------------------------------------------------
(* identificar_anomalias on one extreme record among a hundred *)

\* The amount of record i when the extreme record is the p-th of 100: the
\* other 99 are 49 records of 40, 49 of 60 and one of 50, whose mean is 50
\* and whose sample standard deviation is 10.
MontoEscenario(i, p) ==
    LET r == IF i < p THEN i ELSE i - 1
    IN IF i = p THEN 10000
       ELSE IF r <= 49 THEN 40
       ELSE IF r <= 98 THEN 60
       ELSE 50

DatasetsEscenario ==
    {DataFrame({"nombre", "venta_total"}, "float64", "-",
               [i \in 1..100 |->
                  Fila(i, Str(<<"A">>), Ausente, Num(MontoEscenario(i, p)), Ausente,
                       Ausente, Ausente, Ausente)]) :
        p \in 1..100}

InitEscenario == InitServicio /\ datos \in DatasetsEscenario

NextEscenario == IdentificarAnomalias

SpecEscenario == InitEscenario /\ [][NextEscenario]_vars

\* the 99 ordinary amounts of datos: mean 50, sample variance 100
OrdinariosDeEscenario ==
    LET o == SelectSeq(Montos(datos.filas), LAMBDA x : x # 10000)
    IN /\ Len(o) = 99
       /\ SumaSeq(o) = 99 * 50
       /\ SumaSeq([i \in 1..Len(o) |-> (o[i] - 50) * (o[i] - 50)]) = 98 * 100

\* lo < (desviacion of record a)^2 < hi, for a record above the mean
DesviacionCuadradaEntre(a, lo, hi) ==
    LET t == a.desviacion.distancia
    IN /\ FMenor(Ent(0), t)
       /\ FMenor(a.desviacion.varianza, FDiv(FProd(t, t), lo))
       /\ FMenor(FDiv(FProd(t, t), hi), a.desviacion.varianza)

\* identificar_anomalias(datos, 2.0) has returned on the scenario
EscenarioAnalizado ==
    /\ pc = "anomalias_identificadas"
    /\ ret.arg = Ent(2)
    /\ OrdinariosDeEscenario

\* C22 as stated: on 100 records, 99 of them averaging 50 with standard
\* deviation 10 and one of amount 10000, identificar_anomalias with
\* threshold 2.0 reports the 10000 record as a high anomaly with a deviation
\* of about 995 (here: between 985 and 1005).
C22_DeviationAbout995 ==
    EscenarioAnalizado =>
        /\ Len(ret.valor) = 1
        /\ ret.valor[1].tipo = "venta_alta"
        /\ ret.valor[1].valor = 10000
        /\ DesviacionCuadradaEntre(ret.valor[1], Ent(985 * 985), Ent(1005 * 1005))

\* C22 amended: the 10000 record is the one record reported, as a high
\* anomaly, and its deviation (amount - mu) / sigma, with mu and sigma taken
\* over all 100 records (mu = 149.5, sigma^2 = 98022275/99, sigma about
\* 995), is about 9.9 (its square lies between 97.5 and 98.5).
C22_DeviationAbout10 ==
    EscenarioAnalizado =>
        /\ Len(ret.valor) = 1
        /\ ret.valor[1].tipo = "venta_alta"
        /\ ret.valor[1].valor = 10000
        /\ ret.valor[1].limite.media = Frac(14950, 100)
        /\ ret.valor[1].desviacion.varianza = Frac(98022275, 99)
        /\ DesviacionCuadradaEntre(ret.valor[1], Frac(195, 2), Frac(197, 2))

C22_Witness ==
    /\ EscenarioAnalizado
    /\ datos.filas[100].venta_total = Num(10000)
    /\ Len(ret.valor) = 1
    /\ ret.valor[1].valor = 10000
    /\ ret.valor[1].limite.media = Frac(299, 2)
    /\ ret.valor[1].desviacion.distancia = Frac(19701, 2)

----------------------------------------------------------------------------
(* Properties of analizar_tendencias with two periods or more *)

\* the total of the amounts of datos whose timestamp falls in period k
TotalDelPeriodo(k, periodo) ==
    SumaSeq(Montos(SelectSeq(datos.filas,
                             LAMBDA f : ClavePeriodo(f.venta_timestamp, periodo) = k)))

\* the totals of the chronologically first and last period of datos
PrimerTotal(periodo) ==
    TotalDelPeriodo(CHOOSE k \in PeriodosDe(periodo) :
                       \A j \in PeriodosDe(periodo) : k.n <= j.n, periodo)

UltimoTotal(periodo) ==
    TotalDelPeriodo(CHOOSE k \in PeriodosDe(periodo) :
                       \A j \in PeriodosDe(periodo) : k.n >= j.n, periodo)

\* (last - first) / first * 100 > c and < c, on integers, for first # 0
CreceMasDe(c, first, last) ==
    IF first > 0 THEN (last - first) * 100 > c * first
    ELSE (last - first) * 100 < c * first

CreceMenosDe(c, first, last) ==
    IF first > 0 THEN (last - first) * 100 < c * first
    ELSE (last - first) * 100 > c * first

\* C23: with at least 2 periods analizar_tendencias takes first and last as
\* the totals of the chronologically first and last bucket, computes the
\* growth as (last - first) / first * 100 when first # 0 and 0 otherwise, and
\* labels the trend 'creciente' exactly when growth > 5, 'decreciente'
\* exactly when growth < -5 and 'estable' otherwise (growth of exactly 5 or
\* -5, and a first bucket of 0, are stable).
C23_GrowthAndLabel ==
    (/\ pc = "tendencias_analizadas"
     /\ ConColumnasDeTendencia
     /\ Cardinality(PeriodosDe(ret.arg)) >= 2) =>
        LET first == PrimerTotal(ret.arg)
            last == UltimoTotal(ret.arg)
        IN /\ error = "ninguno"
           /\ ret.valor.crecimiento_porcentual
                 = (IF first # 0 THEN Frac((last - first) * 100, first) ELSE Ent(0))
           /\ ret.valor.tendencia \in {"creciente", "decreciente", "estable"}
           /\ ret.valor.tendencia = "creciente"
                 <=> (first # 0 /\ CreceMasDe(5, first, last))
           /\ ret.valor.tendencia = "decreciente"
                 <=> (first # 0 /\ CreceMenosDe(-5, first, last))

\* two records given latest first, growing by exactly 5 percent: stable
C23_Witness ==
    /\ pc = "tendencias_analizadas"
    /\ error = "ninguno"
    /\ Len(datos.filas) = 2
    /\ datos.filas[1].venta_timestamp = Fecha(2)
    /\ datos.filas[1].venta_total = Num(105)
    /\ datos.filas[2].venta_timestamp = Fecha(1)
    /\ datos.filas[2].venta_total = Num(100)
    /\ ret.arg = "diario"
    /\ ret.valor.crecimiento_porcentual = Ent(5)
    /\ ret.valor.tendencia = "estable"

----------------------------------------------------------------------------
(* Properties of identificar_anomalias: the band and the records reported *)

\* every amount of datos is the same
MontosIdenticos ==
    /\ "venta_total" \in datos.cols
    /\ FilasConMonto # <<>>
    /\ \A i \in 1..Len(FilasConMonto) :
          FilasConMonto[i].venta_total = FilasConMonto[1].venta_total

\* the divisions by desv_std made by the call: one for each record appended
\* (lines 378 and 390), none anywhere else
DivisionesPorDesviacion == Len(ret.valor)

\* C24: when every amount is identical (sigma = 0) identificar_anomalias
\* returns an empty list, for any threshold, and performs no division by
\* sigma.
C24_IdenticalAmountsNoAnomalies ==
    (pc = "anomalias_identificadas" /\ MontosIdenticos) =>
        /\ error = "ninguno"
        /\ ret.valor = <<>>
        /\ DivisionesPorDesviacion = 0

C24_Witness ==
    /\ pc = "anomalias_identificadas"
    /\ MontosIdenticos
    /\ Len(FilasConMonto) = MaxRegistros
    /\ FilasConMonto[1].venta_total = Num(10)
    /\ var_muestral(Montos(datos.filas)) = Ent(0)
    /\ ret.arg = Ent(0)
    /\ ret.valor = <<>>

\* the records of the result that carry amount x
ReportadasConMonto(x) == {i \in 1..Len(ret.valor) : ret.valor[i].valor = x}

\* |desviacion| > k for the reported record a: (row - media)^2 > k^2 * var,
\* for a variance that is a positive number
DesviacionSupera(a, k) ==
    /\ FMenor(Ent(0), a.desviacion.varianza)
    /\ FMenor(FProd(FProd(k, k), a.desviacion.varianza),
              FProd(a.desviacion.distancia, a.desviacion.distancia))

\* C30: for any threshold >= 0, identificar_anomalias reports each record at
\* most once (never both as venta_alta and as venta_baja), and the deviation
\* of every reported anomaly, (amount - mean) / sigma, has absolute value
\* greater than the threshold, positive for venta_alta and negative for
\* venta_baja.
C30_ReportedOnceBeyondThreshold ==
    pc = "anomalias_identificadas" =>
        /\ \A x \in {ret.valor[i].valor : i \in 1..Len(ret.valor)} :
              Cardinality(ReportadasConMonto(x))
                 <= Cardinality({j \in 1..Len(datos.filas) :
                                    datos.filas[j].venta_total = Num(x)})
        /\ \A i \in 1..Len(ret.valor) :
              LET a == ret.valor[i] IN
              /\ a.tipo \in {"venta_alta", "venta_baja"}
              /\ a.desviacion.distancia = FResta(Ent(a.valor), a.limite.media)
              /\ a.limite.media = Frac(SMontos, NMontos)
              /\ a.desviacion.varianza
                    = Frac(NMontos * QMontos - SMontos * SMontos,
                           NMontos * (NMontos - 1))
              /\ DesviacionSupera(a, ret.arg)
              /\ a.tipo = "venta_alta" => a.desviacion.distancia.num > 0
              /\ a.tipo = "venta_baja" => a.desviacion.distancia.num < 0

\* threshold 0 on amounts on both sides of the mean: every record is
\* reported, once
C30_Witness ==
    /\ pc = "anomalias_identificadas"
    /\ ret.arg = Ent(0)
    /\ Len(datos.filas) = MaxRegistros
    /\ Len(ret.valor) = MaxRegistros
    /\ \E i, j \in 1..Len(ret.valor) :
          /\ ret.valor[i].tipo = "venta_alta"
          /\ ret.valor[j].tipo = "venta_baja"

----------------------------------------------------------------------------
(* validar_datos and limpiar_datos applied to raw, coerced and sparse datasets *)

MaxFilasEscasas == 6

\* sheets with an amount column of numbers, numerals, words and empty cells
HojasVenta ==
    Frames({"nombre", "venta_total"}, "object", "-", MaxFilas,
           {Str(<<"A">>)}, {Ausente},
           {Num(2), Str(<<"1">>), Str(<<"x">>), Str(<<>>)},
           {Ausente}, {Ausente}, {Ausente}, {Ausente})

\* the datasets procesar_datos makes of them
DatasetsCoercidos == {procesar_datos(h) : h \in {g \in HojasVenta : ~empty(g)}}

\* datasets of 5..MaxFilasEscasas rows whose first a names and last b
\* categories are null
DatasetsEscasos ==
    UNION {{DataFrame({"nombre", "categoria"}, "-", "-",
                      [i \in 1..n |->
                         Fila(i, IF i <= a THEN NaN ELSE Str(<<"A">>),
                              IF i > n - b THEN None ELSE Str(<<"X">>),
                              Ausente, Ausente, Ausente, Ausente, Ausente)]) :
               a \in 0..n, b \in 0..n} : n \in 5..MaxFilasEscasas}

\* raw datasets: names to strip, amounts to coerce, null cells
DatasetsCrudos ==
    {DfNone}
    \cup Frames({"venta_total", "nombre"}, "object", "-", MaxFilas,
                {Str(<<" ", "A", " ">>), NaN}, {Ausente},
                {Num(-1), Num(2), Str(<<"x">>), NaN},
                {Ausente}, {Ausente}, {Ausente}, {Ausente})

DatasetsDatos == DatasetsCrudos \cup DatasetsCoercidos \cup DatasetsEscasos

InitDatos == InitServicio /\ datos \in DatasetsDatos

NextDatos == Validar \/ Limpiar

SpecDatos == InitDatos /\ [][NextDatos]_vars

\* validar_datos has returned on a dataset with rows and an amount column
ValidadoConVenta ==
    /\ pc = "validado"
    /\ ~datos.es_none
    /\ ~empty(datos)
    /\ "venta_total" \in datos.cols

\* every amount of datos is null
VentaTodaNula ==
    \A i \in 1..Len(datos.filas) : datos.filas[i].venta_total.t \in {"nan", "none"}

\* no amount of the sheet h is a number or a numeral
NingunMontoLegible(h) ==
    \A i \in 1..Len(h.filas) : h.filas[i].venta_total \in {Str(<<"x">>), Str(<<>>)}

\* C25: if the amount column is present, validar_datos reports invalid when
\* it is not numeric-typed and also when it is numeric-typed but every value
\* is null; a dataset whose amount coercion failed for every row is rejected
\* with the explicit entirely-null error.
C25_AmountTypeAndAllNull ==
    ValidadoConVenta =>
        /\ datos.dt_venta # "float64" =>
              /\ ~ret.es_valido
              /\ "venta_total_no_numerica" \in Rango(ret.errores)
        /\ (datos.dt_venta = "float64" /\ VentaTodaNula) =>
              /\ ~ret.es_valido
              /\ "venta_total_vacia" \in Rango(ret.errores)
        /\ (datos.dt_venta = "float64" /\ ~VentaTodaNula) =>
              Rango(ret.errores)
                 \cap {"venta_total_no_numerica", "venta_total_vacia"} = {}
        /\ \A h \in HojasVenta :
              (~empty(h) /\ NingunMontoLegible(h) /\ datos = procesar_datos(h)) =>
                 /\ ~ret.es_valido
                 /\ ret.errores = <<"venta_total_vacia">>

\* two rows whose amounts "x" and "" did not coerce
C25_Witness ==
    /\ ValidadoConVenta
    /\ \E h \in HojasVenta :
          /\ Len(h.filas) = 2
          /\ h.filas[1].venta_total = Str(<<"x">>)
          /\ h.filas[2].venta_total = Str(<<>>)
          /\ datos = procesar_datos(h)
    /\ datos.dt_venta = "float64"
    /\ ~ret.es_valido
    /\ ret.errores = <<"venta_total_vacia">>

\* the null cells of column col of datos, counted on the cells
NulosDe(col) ==
    Cardinality({i \in 1..Len(datos.filas) :
                    Celda(datos.filas[i], col).t \in {"nan", "none", "nat"}})

\* C26: validar_datos rejects an entity_name or category column exactly
\* when (null count / row count) * 100 is strictly greater than 80: a column
\* with exactly 80% nulls is accepted and any larger ratio is rejected, each
\* of the two columns being judged separately.
C26_NullRatioStrictlyAbove80 ==
    (pc = "validado" /\ ~datos.es_none /\ ~empty(datos)) =>
        \A col \in {"nombre", "categoria"} :
            /\ ("nulos_" \o col) \in Rango(ret.errores)
                  <=> (col \in datos.cols /\ 5 * NulosDe(col) > 4 * Len(datos.filas))
            /\ (col \in datos.cols /\ 5 * NulosDe(col) = 4 * Len(datos.filas)) =>
                  ("nulos_" \o col) \notin Rango(ret.errores)

\* 4 null names of 5 pass while 5 null categories of 5 do not
C26_Witness ==
    /\ pc = "validado"
    /\ Len(datos.filas) = 5
    /\ NulosDe("nombre") = 4
    /\ NulosDe("categoria") = 5
    /\ ret.errores = <<"nulos_categoria">>

----------------------------------------------------------------------------
(* Properties of exportar_resultados and of the state generar_resumen keeps *)

\* what a file written in the given format holds
ContenidosDe(formato) ==
    CASE formato = "json" -> {"json"}
      [] formato = "csv" -> {"csv"}
      [] formato = "excel" -> {"excel", "excel_con_resumen"}
      [] OTHER -> {formato}

\* C28 as stated: whenever exportar_resultados returns a path without
\* raising, a file in the requested format has been written at that path,
\* for every format the configuration accepts and whether or not a dataset
\* has been analysed by the service beforehand.
C28_ReturnedPathIsWritten ==
    (/\ pc \in {"exportado", "reexportado"}
     /\ error = "ninguno") =>
        /\ ret.op = "exportar_resultados"
        /\ ret.arg.formato \in EXPORT_FORMATS
        /\ \E a \in archivos :
              /\ a.ruta = ret.valor
              /\ a.contenido \in ContenidosDe(ret.arg.formato)

\* C29: after any sequence of generar_resumen calls on one service
\* (successful, rejected by validation, or failing midway through a
\* section), every section held in resumen was computed from the dataset
\* held in df_actual, and a dataset rejected by validation never replaces
\* df_actual or clears resumen.
C29_ResumenFollowsDfActual ==
    [][/\ \A sec \in DOMAIN resumen' :
             /\ ~df_actual'.es_none
             /\ SeccionAplica(df_actual', sec)
             /\ resumen'[sec] = SeccionValor(df_actual', sec)
       /\ error' = "DataValidationError" =>
             /\ df_actual' = df_actual
             /\ resumen' = resumen]_vars

\* a second call that failed midway: the sections of the first call are
\* gone and the one section computed is that of the new dataset
C29_Witness ==
    /\ pc = "reanalizado"
    /\ error = "DataAnalysisError"
    /\ df_actual = datos
    /\ "diasParaCaducar" \in datos.cols
    /\ DOMAIN resumen = {"info_basica"}
    /\ resumen["info_basica"] = SeccionValor(datos, "info_basica")

============================================================================
